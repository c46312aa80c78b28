--------------------------- MODULE GraphicsProofs ---------------------------
(***************************************************************************)
(* What copy_from clips, for buffers of any size; dragging, for screens    *)
(* and layers of any size and any motion of the mouse; the consoles, for   *)
(* any number of rows and columns and any text; and the composition of the *)
(* layers, for screens and layers of any size.                             *)
(***************************************************************************)
EXTENDS Compositor, Console, NaturalsInduction, WellFoundedInduction, SequenceTheorems, TLAPS

-----------------------------------------------------------------------------
(* Clipping                                                                 *)

\* Along each axis adjust_coords keeps the shift between source and destination, and
\* its stretch is exactly the part of the requested one that lies in the destination
\* and comes from inside of the source: copy_from neither leaves a buffer nor loses a
\* point, whatever the signs of the positions and of the length.
THEOREM ClipExact ==
    ASSUME NEW to_size \in Nat, NEW src_size \in Nat,
           NEW to_pos \in Int, NEW src_pos \in Int, NEW len \in Int
    PROVE  LET r == adjust_coords(to_size, src_size, to_pos, src_pos, len)
           IN  /\ r.src - r.to = src_pos - to_pos
               /\ \A k \in Int : (r.to <= k /\ k < r.to + r.len) <=>
                                    /\ to_pos <= k /\ k < to_pos + len
                                    /\ 0 <= k /\ k < to_size
                                    /\ 0 <= k - to_pos + src_pos
                                    /\ k - to_pos + src_pos < src_size
<1> DEFINE r == adjust_coords(to_size, src_size, to_pos, src_pos, len)
           to1 == increase_d(to_pos, src_pos)
           len1 == decrease_d(len, src_pos)
           src1 == max(src_pos, 0)
           to2 == max(to1, 0)
           len2 == decrease_d(len1, to1)
           src2 == increase_d(src1, to1)
<1>1. /\ to1 \in Int /\ len1 \in Int /\ src1 \in Nat
      /\ src1 - to1 = src_pos - to_pos
      /\ src_pos < 0 => to1 = to_pos - src_pos /\ len1 = len + src_pos /\ src1 = 0
      /\ src_pos >= 0 => to1 = to_pos /\ len1 = len /\ src1 = src_pos
  BY DEF increase_d, decrease_d, max
<1> HIDE DEF to1, len1, src1
<1>2. /\ to2 \in Nat /\ len2 \in Int /\ src2 \in Nat
      /\ src2 - to2 = src_pos - to_pos
      /\ to1 < 0 => to2 = 0 /\ len2 = len1 + to1 /\ src2 = src1 - to1
      /\ to1 >= 0 => to2 = to1 /\ len2 = len1 /\ src2 = src1
  BY <1>1 DEF increase_d, decrease_d, max
<1> HIDE DEF to2, len2, src2
<1>3. /\ r.to = to2 /\ r.src = src2
      /\ r.len = min(len2, min(to_size - to2, src_size - src2))
  BY DEF adjust_coords, to1, len1, src1, to2, len2, src2
<1> HIDE DEF r
<1>4. \A k \in Int : (k < to2 + r.len) <=> /\ k < to2 + len2 /\ k < to_size
                                            /\ k - to2 + src2 < src_size
  BY <1>2, <1>3 DEF min
<1>5. \A k \in Int : (to2 <= k) <=> to_pos <= k /\ 0 <= k /\ 0 <= k - to_pos + src_pos
  BY <1>1, <1>2
<1>6. to2 + len2 = to_pos + len
  BY <1>1, <1>2
<1>7. \A k \in Int : k - to2 + src2 = k - to_pos + src_pos
  BY <1>2
<1>8. /\ r.src - r.to = src_pos - to_pos
      /\ \A k \in Int : (r.to <= k /\ k < r.to + r.len) <=>
                           /\ to_pos <= k /\ k < to_pos + len
                           /\ 0 <= k /\ k < to_size
                           /\ 0 <= k - to_pos + src_pos
                           /\ k - to_pos + src_pos < src_size
  BY <1>2, <1>3, <1>4, <1>5, <1>6, <1>7
<1> QED
  BY <1>8 DEF r

-----------------------------------------------------------------------------
(* Dragging                                                                 *)

\* p lies in the area of a layer of size extent at position q.
Within(q, extent, p) == /\ q[1] <= p[1] /\ p[1] < q[1] + extent[1]
                        /\ q[2] <= p[2] /\ p[2] < q[2] + extent[2]

\* The area of a layer is given by its position and its size.
LEMMA AreaIncludes ==
    ASSUME NEW pic, NEW l, NEW p
    PROVE  includes_point(manager_area(pic, l), p) <=> Within(pic.pos[l], LayerSizes[l], p)
  BY DEF includes_point, manager_area, RectOf, Add, Within

\* Moving a layer and a point together keeps the point inside of the layer.
LEMMA MovedTogether ==
    ASSUME NEW q \in Int \X Int, NEW extent \in Nat \X Nat,
           NEW old \in Int \X Int, NEW new \in Int \X Int, Within(q, extent, old)
    PROVE  Within(Add(q, Subtract(new, old)), extent, new)
  BY DEF Within, Add, Subtract

\* What keeps a dragged layer under the pointer: besides the property itself, the
\* positions it compares are pairs of integers.
DragInv ==
    /\ pos = [l \in Layers |-> pos[l]]
    /\ pos["main_window"] \in Int \X Int
    /\ mouse_position \in Int \X Int
    /\ DraggedUnderPointer

\* Initially nothing is dragged.
LEMMA InitDragInv == Init => DragInv
  BY SizesAssumption DEF Init, DragInv, DraggedUnderPointer, Layers, NoLayer

\* A report of the mouse preserves the invariant: a drag begins under the pointer, goes
\* on with it, and ends with the button.
LEMMA MouseDragInv ==
    ASSUME DragInv, NEW left \in BOOLEAN, NEW motion \in Motions, mouse_observer(left, motion)
    PROVE  DragInv'
<1> DEFINE Dragging == previous_left /\ left /\ dragging_layer_id # NoLayer
           target == Add(pos[dragging_layer_id], Subtract(mouse_position', mouse_position))
<1>1. mouse_position' \in Int \X Int
  BY SizesAssumption, InputsAssumption
  DEF DragInv, mouse_observer, InScreen, VectorMin, VectorMax, Add, Subtract, min, max
<1>2. /\ Dragging => pos' = [pos EXCEPT !["mouse"] = mouse_position',
                                        ![dragging_layer_id] = target]
      /\ ~Dragging => pos' = [pos EXCEPT !["mouse"] = mouse_position']
  BY DEF mouse_observer, MotionMade
<1>3. dragging_layer_id # NoLayer => /\ dragging_layer_id = "main_window" /\ previous_left
                                     /\ Within(pos["main_window"], LayerSizes["main_window"],
                                               mouse_position)
  BY AreaIncludes
  DEF DragInv, DraggedUnderPointer, is_draggable, Picture
<1>4. target \in Int \X Int \/ dragging_layer_id = NoLayer
  BY <1>1, <1>3 DEF DragInv, Add, Subtract
<1> HIDE DEF target
<1>5. /\ pos' = [l \in Layers |-> pos'[l]]
      /\ Dragging => pos'["main_window"] = target
      /\ ~Dragging => pos'["main_window"] = pos["main_window"]
  BY <1>2, <1>3 DEF DragInv, Layers
<1>6. pos'["main_window"] \in Int \X Int
  BY <1>4, <1>5 DEF DragInv
<1>7. LayerSizes["main_window"] \in Nat \X Nat
  BY SizesAssumption DEF Layers
<1>8. dragging_layer_id' # NoLayer =>
         /\ previous_left' /\ is_draggable(dragging_layer_id')
         /\ Within(pos'[dragging_layer_id'], LayerSizes[dragging_layer_id'], mouse_position')
  <2> SUFFICES ASSUME dragging_layer_id' # NoLayer
               PROVE  /\ previous_left' /\ is_draggable(dragging_layer_id')
                      /\ Within(pos'[dragging_layer_id'], LayerSizes[dragging_layer_id'],
                                mouse_position')
    OBVIOUS
  <2>1. CASE /\ ~previous_left /\ left
             /\ dragging_layer_id' \in find_layer_by_position(mouse_position', "mouse")
             /\ is_draggable(dragging_layer_id')
    <3>1. includes_point(manager_area(Picture, dragging_layer_id'), mouse_position')
      BY <2>1 DEF find_layer_by_position
    <3>2. Within(pos[dragging_layer_id'], LayerSizes[dragging_layer_id'], mouse_position')
      BY <3>1, AreaIncludes DEF Picture
    <3>3. dragging_layer_id' = "main_window" /\ ~Dragging /\ previous_left'
      BY <2>1 DEF is_draggable, mouse_observer
    <3> QED
      BY <2>1, <3>2, <3>3, <1>5
  <2>2. CASE dragging_layer_id' = dragging_layer_id
    <3>1. dragging_layer_id = "main_window" /\ previous_left
      BY <2>2, <1>3
    <3>2. left /\ previous_left'
      BY <2>2, <3>1 DEF mouse_observer, find_layer_by_position
    <3>3. Within(target, LayerSizes["main_window"], mouse_position')
      BY <1>1, <1>3, <1>7, <2>2, <3>1, MovedTogether DEF DragInv, target
    <3> QED
      BY <2>2, <3>1, <3>2, <3>3, <1>5 DEF is_draggable
  <2> QED
    BY <2>1, <2>2 DEF mouse_observer
<1> QED
  BY <1>1, <1>5, <1>6, <1>8, AreaIncludes DEF DragInv, DraggedUnderPointer, Picture

\* Every other step leaves the mouse alone and moves the test layer at most.
LEMMA OtherDragInv ==
    ASSUME DragInv, UNCHANGED mouse,
           \/ UNCHANGED pos
           \/ \E p : pos' = [pos EXCEPT !["test"] = p]
    PROVE  DragInv'
<1>1. /\ pos' = [l \in Layers |-> pos'[l]]
      /\ pos'["main_window"] = pos["main_window"]
  BY DEF DragInv, Layers
<1>2. dragging_layer_id' # NoLayer =>
         /\ previous_left' /\ dragging_layer_id' = "main_window"
         /\ Within(pos'["main_window"], LayerSizes["main_window"], mouse_position')
  BY <1>1, AreaIncludes DEF DragInv, DraggedUnderPointer, is_draggable, Picture, mouse
<1> QED
  BY <1>1, <1>2, AreaIncludes DEF DragInv, DraggedUnderPointer, is_draggable, Picture, mouse

\* No step of the system breaks the invariant.
LEMMA DragInvariant == Spec => []DragInv
<1>1. DragInv /\ [Next]_vars => DragInv'
  <2> SUFFICES ASSUME DragInv, [Next]_vars PROVE DragInv'
    OBVIOUS
  <2>1. CASE ShowLayer \/ SetBufferAndDraw \/ PaintCounter \/ NextRound \/ UNCHANGED vars
    <3>1. UNCHANGED pos /\ UNCHANGED mouse
      BY <2>1 DEF ShowLayer, SetBufferAndDraw, PaintCounter, NextRound, vars
    <3> QED
      BY <3>1, OtherDragInv
  <2>2. CASE MoveTestLayer
    <3>1. UNCHANGED mouse /\ \E p : pos' = [pos EXCEPT !["test"] = p]
      BY <2>2 DEF MoveTestLayer
    <3> QED
      BY <3>1, OtherDragInv
  <2>3. ASSUME NEW rect \in ConsoleRects, PutString(rect) PROVE DragInv'
    BY <2>3, OtherDragInv DEF PutString
  <2>4. ASSUME NEW left \in BOOLEAN, NEW motion \in Motions, mouse_observer(left, motion)
        PROVE  DragInv'
    BY <2>4, MouseDragInv
  <2> QED
    BY <2>1, <2>2, <2>3, <2>4 DEF Next
<1> QED
  BY InitDragInv, <1>1, PTL DEF Spec

\* For screens and layers of any size and any reports of the mouse, a layer that is
\* being dragged stays under the pointer and is let go with the button.
THEOREM DragSafety == Spec => []DraggedUnderPointer
<1>1. DragInv => DraggedUnderPointer
  BY DEF DragInv
<1> QED
  BY DragInvariant, <1>1, PTL

-----------------------------------------------------------------------------
(* The consoles: what is seen of a text.                                    *)

\* The texts, as lines that fit
Texts == {t \in Seq(Seq(Glyphs)) : /\ t # <<>>
                                   /\ \A n \in 1..Len(t) : Len(t[n]) <= columns}

\* What the last lines of text t have in a cell, and all cells of them
CellOf(t, cell) ==
    LET n == max(0, Len(t) - rows) + cell[1] + 1
    IN  IF n <= Len(t) /\ cell[2] < Len(t[n]) THEN {t[n][cell[2] + 1]} ELSE {}
Grid(t) == [cell \in Cells |-> CellOf(t, cell)]

\* Where the next character goes.
RowOf(t) == min(Len(t), rows) - 1
ColumnOf(t) == Len(t[Len(t)])

\* The text with a new line, and with one more character in its last line
NewLine(t) == Append(t, <<>>)
MoreOf(t, char) == [t EXCEPT ![Len(t)] = Append(@, char)]

\* A text has a last line, and its parts are numbers.
LEMMA TextParts ==
    ASSUME NEW t \in Texts
    PROVE  /\ Len(t) \in Nat \ {0} /\ DOMAIN t = 1..Len(t) /\ t \in Seq(Seq(Glyphs))
           /\ \A n \in 1..Len(t) : t[n] \in Seq(Glyphs) /\ Len(t[n]) \in 0..columns
           /\ ColumnOf(t) \in 0..columns /\ RowOf(t) \in Rows
  <1>1. t \in Seq(Seq(Glyphs)) /\ t # <<>> /\ \A n \in 1..Len(t) : Len(t[n]) <= columns
    BY DEF Texts
  <1>2. Len(t) \in Nat \ {0} /\ DOMAIN t = 1..Len(t)
    BY <1>1, LenProperties, EmptySeq
  <1>3. \A n \in 1..Len(t) : t[n] \in Seq(Glyphs)
    BY <1>1, ElementOfSeq
  <1>4. \A n \in 1..Len(t) : Len(t[n]) \in Nat
    BY <1>3, LenProperties
  <1>5. \A n \in 1..Len(t) : Len(t[n]) \in 0..columns
    BY <1>1, <1>4, GridAssumption
  <1>6. ColumnOf(t) \in 0..columns
    BY <1>2, <1>5 DEF ColumnOf
  <1>7. RowOf(t) \in Rows
    BY <1>2, GridAssumption DEF RowOf, Rows, min
  <1> QED BY <1>1, <1>2, <1>3, <1>5, <1>6, <1>7

\* A cell is its row and column.
LEMMA CellParts ==
    ASSUME NEW cell \in Cells
    PROVE  cell = <<cell[1], cell[2]>> /\ cell[1] \in 0..(rows - 1) /\ cell[2] \in 0..(columns - 1)
  BY DEF Cells, Rows, Columns

\* A text with a new line is a text.
LEMMA NewLineText ==
    ASSUME NEW t \in Texts
    PROVE  /\ NewLine(t) \in Texts /\ Len(NewLine(t)) = Len(t) + 1
           /\ NewLine(t)[Len(t) + 1] = <<>> /\ \A n \in 1..Len(t) : NewLine(t)[n] = t[n]
           /\ ColumnOf(NewLine(t)) = 0
  <1>1. /\ t \in Seq(Seq(Glyphs)) /\ Len(t) \in Nat
        /\ \A n \in 1..Len(t) : Len(t[n]) \in 0..columns
    BY TextParts
  <1>2. <<>> \in Seq(Glyphs) /\ Len(<<>>) = 0
    BY EmptySeq, LenProperties
  <1>3. PICK u \in Seq(Seq(Glyphs)) : u = NewLine(t)
    BY <1>1, <1>2, AppendProperties DEF NewLine
  <1>4. /\ Len(u) = Len(t) + 1 /\ u[Len(t) + 1] = <<>> /\ u # <<>>
        /\ \A n \in 1..Len(t) : u[n] = t[n]
    <2> HIDE DEF NewLine
    <2>1. u = Append(t, <<>>)
      BY <1>3 DEF NewLine
    <2>2. Len(u) = Len(t) + 1 /\ u[Len(t) + 1] = <<>> /\ \A n \in 1..Len(t) : u[n] = t[n]
      BY <1>1, <1>2, <2>1, AppendProperties
    <2> QED BY <1>1, <1>2, <2>2
  <1>5. ASSUME NEW n \in 1..Len(u) PROVE Len(u[n]) <= columns
    <2>1. CASE n = Len(t) + 1
      BY <1>2, <1>4, <2>1, GridAssumption
    <2>2. CASE n # Len(t) + 1
      <3>1. n \in 1..Len(t)
        BY <1>1, <1>4, <2>2
      <3>2. u[n] = t[n] /\ Len(t[n]) \in 0..columns
        BY <1>1, <1>4, <3>1
      <3> QED BY <3>2, GridAssumption
    <2> QED BY <2>1, <2>2
  <1>6. ColumnOf(u) = 0
    BY <1>2, <1>4 DEF ColumnOf
  <1> QED BY <1>3, <1>4, <1>5, <1>6 DEF Texts

\* Line n of a text, blank if there is none, and what a line has in column x
LineAt(t, n) == IF n <= Len(t) THEN t[n] ELSE <<>>
CharAt(line, x) == IF x < Len(line) THEN {line[x + 1]} ELSE {}

\* A cell shows a column of a line.
LEMMA CellIsChar ==
    ASSUME NEW t, Len(t) \in Nat, NEW y \in Nat, NEW x \in Nat, NEW n \in Nat,
           n = max(0, Len(t) - rows) + y + 1
    PROVE  CellOf(t, <<y, x>>) = CharAt(LineAt(t, n), x)
  <1>1. Len(<<>>) = 0
    BY LenProperties, EmptySeq
  <1>2. CASE n <= Len(t)
    BY <1>2 DEF CellOf, CharAt, LineAt
  <1>3. CASE ~(n <= Len(t))
    BY <1>1, <1>3 DEF CellOf, CharAt, LineAt
  <1> QED BY <1>2, <1>3

\* A new line adds a blank one, which is there anyway.
LEMMA NewLineAt ==
    ASSUME NEW t \in Texts, NEW n \in Nat \ {0}
    PROVE  LineAt(NewLine(t), n) = LineAt(t, n)
  <1>0. PICK u : u = NewLine(t)
    OBVIOUS
  <1>1. PICK N \in Nat : u = NewLine(t) /\ N = Len(t)
    BY <1>0, TextParts
  <1>2. Len(u) = N + 1 /\ u[N + 1] = <<>> /\ \A k \in 1..N : u[k] = t[k]
    BY <1>1, NewLineText
  <1>3. CASE n <= N
    <2>1. n \in 1..N /\ n <= N + 1
      BY <1>3
    <2> QED BY <1>1, <1>2, <1>3, <2>1 DEF LineAt
  <1>4. CASE n = N + 1
    <2>1. ~(n <= N) /\ n <= N + 1
      BY <1>4
    <2> QED BY <1>1, <1>2, <1>4, <2>1 DEF LineAt
  <1>5. CASE n > N + 1
    <2>1. ~(n <= N) /\ ~(n <= N + 1)
      BY <1>5
    <2> QED BY <1>1, <1>2, <2>1 DEF LineAt
  <1> QED BY <1>3, <1>4, <1>5

\* While there are fewer lines than rows, a new line changes nothing on the screen.
LEMMA NewLineGrid ==
    ASSUME NEW t \in Texts, Len(t) < rows
    PROVE  Grid(NewLine(t)) = Grid(t) /\ RowOf(NewLine(t)) = RowOf(t) + 1
  <1>1. PICK u \in Texts : u = NewLine(t)
    BY NewLineText
  <1>2. Len(u) = Len(t) + 1 /\ Len(t) \in Nat \ {0}
    BY <1>1, NewLineText, TextParts
  <1>3. RowOf(u) = RowOf(t) + 1
    BY <1>2, GridAssumption DEF RowOf, min
  <1>4. ASSUME NEW cell \in Cells PROVE CellOf(u, cell) = CellOf(t, cell)
    <2>1. PICK y \in Nat, x \in Nat : cell = <<y, x>>
      BY CellParts, GridAssumption
    <2>2. max(0, Len(t) - rows) = 0 /\ max(0, Len(u) - rows) = 0
      BY <1>2, GridAssumption DEF max
    <2>3. CellOf(u, cell) = CharAt(LineAt(u, y + 1), x)
      BY <1>2, <2>1, <2>2, CellIsChar
    <2>4. CellOf(t, cell) = CharAt(LineAt(t, y + 1), x)
      BY <1>2, <2>1, <2>2, CellIsChar
    <2> QED BY <1>1, <2>3, <2>4, NewLineAt
  <1> QED BY <1>1, <1>3, <1>4 DEF Grid

\* When there is a line in every row, a new line moves the lines up by one.
LEMMA ScrolledGrid ==
    ASSUME NEW t \in Texts, Len(t) >= rows
    PROVE  Grid(NewLine(t)) = Scrolled(Grid(t)) /\ RowOf(NewLine(t)) = RowOf(t)
  <1>1. PICK u \in Texts : u = NewLine(t)
    BY NewLineText
  <1>2. /\ Len(u) = Len(t) + 1 /\ u[Len(t) + 1] = <<>> /\ Len(t) \in Nat \ {0}
        /\ \A n \in 1..Len(t) : u[n] = t[n]
    BY <1>1, NewLineText, TextParts
  <1>3. RowOf(u) = RowOf(t)
    BY <1>2, GridAssumption DEF RowOf, min
  <1>4. PICK f \in Nat : f = Len(t) - rows
    BY <1>2, GridAssumption
  <1>5. max(0, Len(t) - rows) = f /\ max(0, Len(u) - rows) = f + 1 /\ Len(t) = f + rows
    BY <1>2, <1>4, GridAssumption DEF max
  <1>6. ASSUME NEW cell \in Cells
        PROVE  CellOf(u, cell) = IF cell[1] = rows - 1 THEN {}
                                 ELSE Grid(t)[<<cell[1] + 1, cell[2]>>]
    <2>1. PICK y \in Nat, x \in Nat :
             cell = <<y, x>> /\ y = cell[1] /\ x = cell[2] /\ y <= rows - 1 /\ x <= columns - 1
      BY CellParts, GridAssumption
    <2>a. PICK n \in Nat \ {0} : n = f + y + 2
      OBVIOUS
    <2>2. CellOf(u, cell) = CharAt(LineAt(t, n), x)
      <3>0. n = max(0, Len(u) - rows) + y + 1
        BY <1>5, <2>a
      <3>1. CellOf(u, cell) = CharAt(LineAt(u, n), x)
        BY <1>2, <2>1, <3>0, CellIsChar
      <3> QED BY <1>1, <3>1, NewLineAt
    <2>3. CASE y = rows - 1
      <3>1. ~(n <= Len(t))
        BY <2>a, <1>2, <1>5, <2>3, GridAssumption
      <3>2. LineAt(t, n) = <<>> /\ Len(<<>>) = 0
        BY <3>1, LenProperties, EmptySeq DEF LineAt
      <3> QED BY <2>1, <2>2, <2>3, <3>2 DEF CharAt
    <2>4. CASE y # rows - 1
      <3>1. <<y + 1, x>> \in Cells
        BY <2>1, <2>4, GridAssumption DEF Cells, Rows, Columns
      <3>2. CellOf(t, <<y + 1, x>>) = CharAt(LineAt(t, n), x)
        <4>1. n = max(0, Len(t) - rows) + (y + 1) + 1
          BY <1>5, <2>a
        <4> QED BY <1>2, <4>1, CellIsChar
      <3>3. Grid(t)[<<y + 1, x>>] = CellOf(t, <<y + 1, x>>)
        BY <3>1 DEF Grid
      <3> QED BY <2>1, <2>2, <2>4, <3>2, <3>3
    <2> QED BY <2>3, <2>4
  <1> QED BY <1>1, <1>3, <1>6 DEF Grid, Scrolled

\* A line that is not full has room for a character, in a cell that is blank.
LEMMA MoreOfGrid ==
    ASSUME NEW t \in Texts, ColumnOf(t) < columns, NEW char \in Glyphs
    PROVE  LET u == MoreOf(t, char)
               place == <<RowOf(t), ColumnOf(t)>>
           IN  /\ u \in Texts /\ Len(u) = Len(t)
               /\ RowOf(u) = RowOf(t) /\ ColumnOf(u) = ColumnOf(t) + 1
               /\ place \in Cells /\ Grid(t)[place] = {}
               /\ Grid(u) = [Grid(t) EXCEPT ![place] = {char}]
  <1>1. /\ t \in Seq(Seq(Glyphs)) /\ Len(t) \in Nat \ {0} /\ DOMAIN t = 1..Len(t)
        /\ \A n \in 1..Len(t) : t[n] \in Seq(Glyphs) /\ Len(t[n]) \in 0..columns
        /\ RowOf(t) \in Rows /\ ColumnOf(t) \in 0..columns
    BY TextParts
  <1>2. PICK l \in Seq(Glyphs) : l = t[Len(t)]
    BY <1>1
  <1>3. PICK m \in Seq(Glyphs) : m = Append(l, char)
    BY AppendProperties
  <1>4. /\ Len(m) = Len(l) + 1 /\ m[Len(l) + 1] = char /\ Len(l) \in Nat
        /\ \A n \in 1..Len(l) : m[n] = l[n]
    BY <1>3, AppendProperties, LenProperties
  <1>5. PICK u : u = MoreOf(t, char)
    OBVIOUS
  <1>6. u = [t EXCEPT ![Len(t)] = m]
    BY <1>2, <1>3, <1>5 DEF MoreOf
  <1>7. u \in Seq(Seq(Glyphs)) /\ Len(u) = Len(t)
    BY <1>1, <1>6, ExceptSeq
  <1>8. u[Len(t)] = m /\ \A n \in 1..Len(t) : n # Len(t) => u[n] = t[n]
    BY <1>1, <1>6
  <1>9. ColumnOf(t) = Len(l) /\ ColumnOf(u) = Len(l) + 1 /\ RowOf(u) = RowOf(t)
    BY <1>2, <1>4, <1>7, <1>8 DEF ColumnOf, RowOf
  <1>10. u \in Texts
    <2>1. u # <<>>
      BY <1>1, <1>7, LenProperties, EmptySeq
    <2>2. ASSUME NEW n \in 1..Len(u) PROVE Len(u[n]) <= columns
      <3>1. CASE n = Len(t)
        <4>1. Len(l) < columns /\ Len(u[n]) = Len(l) + 1
          BY <1>4, <1>8, <1>9, <3>1
        <4> QED BY <1>4, <4>1, GridAssumption
      <3>2. CASE n # Len(t)
        <4>1. n \in 1..Len(t)
          BY SMTT(30), <1>7
        <4>2. u[n] = t[n] /\ Len(t[n]) \in 0..columns
          BY Zenon, <1>1, <1>8, <3>2, <4>1
        <4> QED BY <4>2, GridAssumption
      <3> QED BY <3>1, <3>2
    <2> QED BY <1>7, <2>1, <2>2 DEF Texts
  <1>11. PICK r \in Nat, f \in Nat, N \in Nat :
            /\ N = Len(t) /\ r = RowOf(t) /\ r < rows
            /\ f = max(0, N - rows) /\ f + r + 1 = N
    <2>1. PICK N \in Nat \ {0} : N = Len(t)
      BY <1>1
    <2>2. /\ max(0, N - rows) \in Nat /\ min(N, rows) - 1 \in Nat /\ min(N, rows) - 1 < rows
          /\ max(0, N - rows) + (min(N, rows) - 1) + 1 = N
      BY GridAssumption DEF max, min
    <2> QED BY SMTT(30), <2>1, <2>2 DEF RowOf
  <1>12. PICK k \in Nat : k = ColumnOf(t) /\ k = Len(l) /\ k < columns
    BY <1>4, <1>9
  <1>13. <<r, k>> \in Cells
    BY SMTT(30), <1>11, <1>12, GridAssumption DEF Cells, Rows, Columns
  <1>14. LineAt(t, N) = l /\ LineAt(u, N) = m
    BY <1>2, <1>7, <1>8, <1>11 DEF LineAt
  <1>15. \A x \in Nat : CharAt(m, x) = IF x = k THEN {char} ELSE CharAt(l, x)
    <2> SUFFICES ASSUME NEW x \in Nat PROVE CharAt(m, x) = IF x = k THEN {char} ELSE CharAt(l, x)
      OBVIOUS
    <2>1. CASE x < k
      <3>1. x < Len(m) /\ m[x + 1] = l[x + 1]
        BY <1>4, <1>12, <2>1
      <3> QED BY <1>12, <2>1, <3>1 DEF CharAt
    <2>2. CASE x = k
      <3>1. x < Len(m) /\ m[x + 1] = char
        BY <1>4, <1>12, <2>2
      <3> QED BY <2>2, <3>1 DEF CharAt
    <2>3. CASE x > k
      <3>1. ~(x < Len(m)) /\ ~(x < Len(l)) /\ x # k
        BY <1>4, <1>12, <2>3
      <3> QED BY <3>1 DEF CharAt
    <2> QED BY <2>1, <2>2, <2>3
  <1>16. CharAt(l, k) = {}
    BY <1>12 DEF CharAt
  <1>17. ASSUME NEW cell \in Cells
         PROVE  /\ CellOf(u, cell) = IF cell = <<r, k>> THEN {char} ELSE CellOf(t, cell)
                /\ cell = <<r, k>> => CellOf(t, cell) = {}
    <2>1. PICK y \in Nat, x \in Nat : cell = <<y, x>>
      BY CellParts, GridAssumption
    <2>a. PICK n \in Nat \ {0} : n = f + y + 1
      OBVIOUS
    <2>b. /\ Len(t) \in Nat /\ Len(u) \in Nat
          /\ n = max(0, Len(t) - rows) + y + 1 /\ n = max(0, Len(u) - rows) + y + 1
      BY <1>7, <1>11, <2>a
    <2>2. CellOf(u, cell) = CharAt(LineAt(u, n), x)
      BY <2>1, <2>b, CellIsChar
    <2>3. CellOf(t, cell) = CharAt(LineAt(t, n), x)
      BY <2>1, <2>b, CellIsChar
    <2>4. CASE y # r
      <3>2. n # N
        BY SMTT(30), <1>11, <2>4, <2>a
      <3>3. n <= N => n \in 1..Len(t) /\ n # Len(t)
        BY <1>11, <3>2
      <3>4. LineAt(u, n) = LineAt(t, n)
        BY <1>7, <1>8, <1>11, <3>3 DEF LineAt
      <3>5. cell # <<r, k>>
        BY <2>1, <2>4
      <3> QED BY <2>2, <2>3, <3>2, <3>4, <3>5
    <2>5. CASE y = r
      <3>1. n = N
        BY <1>11, <2>5, <2>a
      <3>2. CellOf(u, cell) = CharAt(m, x) /\ CellOf(t, cell) = CharAt(l, x)
        BY <1>14, <2>2, <2>3, <3>1
      <3>3. cell = <<r, k>> <=> x = k
        BY <2>1, <2>5
      <3> QED BY <1>15, <1>16, <3>2, <3>3
    <2> QED BY <2>4, <2>5
  <1>18. Grid(t)[<<r, k>>] = {} /\ Grid(u) = [Grid(t) EXCEPT ![<<r, k>>] = {char}]
    BY <1>13, <1>17 DEF Grid
  <1> QED BY <1>5, <1>7, <1>9, <1>10, <1>11, <1>12, <1>13, <1>18
-----------------------------------------------------------------------------
(* The consoles: every character.                                           *)

\* What text u the consoles have after a character, from text t.
After(t, char) == IF char = Newline THEN NewLine(t)
                  ELSE IF ColumnOf(t) = columns THEN MoreOf(NewLine(t), char)
                  ELSE MoreOf(t, char)

\* The model's text, one character longer
LEMMA WithCharAfter ==
    ASSUME lines \in Texts, NEW char \in Glyphs \cup {Newline}
    PROVE  WithChar(char) = After(lines, char) /\ WithChar(char) \in Texts
  <1>1. PICK t \in Texts : t = lines
    OBVIOUS
  <1>2. CASE char = Newline
    BY <1>1, <1>2, NewLineText DEF WithChar, After, NewLine
  <1>3. CASE char # Newline /\ ColumnOf(t) = columns
    <2>1. char \in Glyphs
      BY <1>3
    <2>2. PICK u \in Texts : u = NewLine(t)
      BY NewLineText
    <2>3. /\ Len(u) = Len(t) + 1 /\ u[Len(t) + 1] = <<>> /\ ColumnOf(u) = 0
          /\ \A n \in 1..Len(t) : u[n] = t[n]
      BY <2>2, NewLineText
    <2>4. MoreOf(u, char) \in Texts /\ Len(MoreOf(u, char)) = Len(u)
      <3>1. ColumnOf(u) < columns
        BY <2>3, GridAssumption
      <3> QED BY <2>1, <3>1, MoreOfGrid
    <2>5. /\ Len(t) \in Nat /\ t \in Seq(Seq(Glyphs)) /\ u \in Seq(Seq(Glyphs))
          /\ DOMAIN u = 1..Len(u)
      BY TextParts
    <2>6. <<char>> \in Seq(Glyphs) /\ Append(<<>>, char) = <<char>>
      BY <2>1
    <2>7. /\ Append(t, <<char>>) \in Seq(Seq(Glyphs)) /\ Len(Append(t, <<char>>)) = Len(t) + 1
          /\ Append(t, <<char>>)[Len(t) + 1] = <<char>>
          /\ \A n \in 1..Len(t) : Append(t, <<char>>)[n] = t[n]
      BY <2>5, <2>6, AppendProperties
    <2>8. MoreOf(u, char) = [u EXCEPT ![Len(t) + 1] = <<char>>]
      BY <2>3, <2>6 DEF MoreOf
    <2>9. ASSUME NEW n \in 1..(Len(t) + 1) PROVE MoreOf(u, char)[n] = Append(t, <<char>>)[n]
      <3>1. CASE n = Len(t) + 1
        BY <2>3, <2>5, <2>7, <2>8, <3>1
      <3>2. CASE n # Len(t) + 1
        <4>1. n \in 1..Len(t)
          BY <2>5, <3>2
        <4> QED BY <2>3, <2>5, <2>7, <2>8, <3>2, <4>1
      <3> QED BY <3>1, <3>2
    <2>10. MoreOf(u, char) \in Seq(Seq(Glyphs))
      BY <2>4 DEF Texts
    <2>11. MoreOf(u, char) = Append(t, <<char>>)
      BY <2>3, <2>4, <2>7, <2>9, <2>10, SeqEqual
    <2> QED BY <1>1, <1>3, <2>2, <2>4, <2>11 DEF WithChar, After, ColumnOf
  <1>4. CASE char # Newline /\ ColumnOf(t) # columns
    <2>1. ColumnOf(t) < columns
      BY <1>4, TextParts, GridAssumption
    <2>2. MoreOf(t, char) \in Texts
      BY <1>4, <2>1, MoreOfGrid
    <2> QED BY <1>1, <1>4, <2>2 DEF WithChar, After, ColumnOf, MoreOf
  <1> QED BY <1>2, <1>3, <1>4

\* A console that shows text t: its cursor and its cells.
ShowsText(con, t) ==
    con.screen = Grid(t) /\ con.row = RowOf(t) /\ con.column = ColumnOf(t)

\* Whether the last row is reached
LEMMA RowBelow ==
    ASSUME NEW t \in Texts
    PROVE  HasRowBelow(RowOf(t)) <=> Len(t) < rows
  <1>1. PICK N \in Nat \ {0} : N = Len(t)
    BY TextParts
  <1>2. min(N, rows) - 1 < rows - 1 <=> N < rows
    BY GridAssumption DEF min
  <1> QED BY <1>1, <1>2 DEF HasRowBelow, RowOf

\* new_line of Console
LEMMA SlowNewLine ==
    ASSUME NEW t \in Texts, NEW con, ShowsText(con, t), con.buffer = Grid(t)
    PROVE  LET new == slow_new_line(con)
           IN ShowsText(new, NewLine(t)) /\ new.buffer = Grid(NewLine(t))
  <1>1. ColumnOf(NewLine(t)) = 0
    BY NewLineText
  <1>2. CASE HasRowBelow(con.row)
    <2>1. Len(t) < rows
      BY <1>2, RowBelow DEF ShowsText
    <2>2. Grid(NewLine(t)) = Grid(t) /\ RowOf(NewLine(t)) = RowOf(t) + 1
      BY <2>1, NewLineGrid
    <2> QED BY <1>1, <1>2, <2>2 DEF slow_new_line, ShowsText
  <1>3. CASE ~HasRowBelow(con.row)
    <2>1. Len(t) >= rows
      BY <1>3, RowBelow, TextParts, GridAssumption DEF ShowsText
    <2>2. Grid(NewLine(t)) = Scrolled(Grid(t)) /\ RowOf(NewLine(t)) = RowOf(t)
      BY <2>1, ScrolledGrid
    <2> QED BY <1>1, <1>3, <2>2 DEF slow_new_line, ShowsText
  <1> QED BY <1>2, <1>3

\* new_line of FastConsole
LEMMA FastNewLine ==
    ASSUME NEW t \in Texts, NEW con, ShowsText(con, t)
    PROVE  ShowsText(fast_new_line(con), NewLine(t))
  <1>1. ColumnOf(NewLine(t)) = 0
    BY NewLineText
  <1>2. CASE HasRowBelow(con.row)
    <2>1. Len(t) < rows
      BY <1>2, RowBelow DEF ShowsText
    <2>2. Grid(NewLine(t)) = Grid(t) /\ RowOf(NewLine(t)) = RowOf(t) + 1
      BY <2>1, NewLineGrid
    <2> QED BY <1>1, <1>2, <2>2 DEF fast_new_line, ShowsText
  <1>3. CASE ~HasRowBelow(con.row)
    <2>1. Len(t) >= rows
      BY <1>3, RowBelow, TextParts, GridAssumption DEF ShowsText
    <2>2. Grid(NewLine(t)) = Scrolled(Grid(t)) /\ RowOf(NewLine(t)) = RowOf(t)
      BY <2>1, ScrolledGrid
    <2> QED BY <1>1, <1>3, <2>2 DEF fast_new_line, fast_scrolled, ShowsText
  <1> QED BY <1>2, <1>3

\* A glyph is drawn into a blank cell, where there is room.
LEMMA DrawnGrid ==
    ASSUME NEW t \in Texts, ColumnOf(t) < columns, NEW char \in Glyphs
    PROVE  /\ Drawn(Grid(t), RowOf(t), ColumnOf(t), char) = Grid(MoreOf(t, char))
           /\ [Grid(t) EXCEPT ![<<RowOf(t), ColumnOf(t)>>] = {char}] = Grid(MoreOf(t, char))
           /\ RowOf(MoreOf(t, char)) = RowOf(t) /\ ColumnOf(MoreOf(t, char)) = ColumnOf(t) + 1
  <1>1. /\ RowOf(MoreOf(t, char)) = RowOf(t) /\ ColumnOf(MoreOf(t, char)) = ColumnOf(t) + 1
        /\ Grid(t)[<<RowOf(t), ColumnOf(t)>>] = {}
        /\ Grid(MoreOf(t, char)) = [Grid(t) EXCEPT ![<<RowOf(t), ColumnOf(t)>>] = {char}]
    BY MoreOfGrid
  <1>2. {} \cup {char} = {char}
    OBVIOUS
  <1> QED BY <1>1, <1>2 DEF Drawn

\* One character on Console
LEMMA SlowPut ==
    ASSUME NEW t \in Texts, NEW con, ShowsText(con, t), con.buffer = Grid(t),
           NEW char \in Glyphs \cup {Newline}
    PROVE  LET new == slow_put(con, char)
           IN ShowsText(new, After(t, char)) /\ new.buffer = Grid(After(t, char))
  <1>1. CASE char = Newline
    BY <1>1, SlowNewLine DEF slow_put, After
  <1>2. CASE char # Newline
    <2> DEFINE room == IF con.column < columns THEN con ELSE slow_new_line(con)
               u == IF ColumnOf(t) = columns THEN NewLine(t) ELSE t
    <2>1. ColumnOf(t) < columns \/ ColumnOf(t) = columns
      BY TextParts, GridAssumption
    <2>2. /\ u \in Texts /\ ColumnOf(u) < columns
          /\ ShowsText(room, u) /\ room.buffer = Grid(u)
      <3>1. CASE ColumnOf(t) < columns
        <4>1. ColumnOf(t) # columns
          BY <3>1, TextParts, GridAssumption
        <4> QED BY <3>1, <4>1 DEF ShowsText
      <3>2. CASE ColumnOf(t) = columns
        <4>1. ~(con.column < columns)
          BY <3>2, GridAssumption DEF ShowsText
        <4>2. NewLine(t) \in Texts /\ ColumnOf(NewLine(t)) < columns
          BY NewLineText, GridAssumption
        <4> QED BY <3>2, <4>1, <4>2, SlowNewLine
      <3> QED BY <2>1, <3>1, <3>2
    <2>3. After(t, char) = MoreOf(u, char)
      BY <1>2 DEF After
    <2>4. slow_put(con, char) =
             [buffer |-> [room.buffer EXCEPT ![<<room.row, room.column>>] = {char}],
              screen |-> Drawn(room.screen, room.row, room.column, char),
              row |-> room.row, column |-> room.column + 1]
      BY <1>2 DEF slow_put
    <2> HIDE DEF room, u
    <2> QED BY <1>2, <2>2, <2>3, <2>4, DrawnGrid DEF ShowsText
  <1> QED BY <1>1, <1>2

\* One character on FastConsole
LEMMA FastPut ==
    ASSUME NEW t \in Texts, NEW con, ShowsText(con, t), NEW char \in Glyphs \cup {Newline}
    PROVE  ShowsText(fast_put(con, char), After(t, char))
  <1>1. CASE char = Newline
    BY <1>1, FastNewLine DEF fast_put, After
  <1>2. CASE char # Newline
    <2> DEFINE room == IF con.column < columns THEN con ELSE fast_new_line(con)
               u == IF ColumnOf(t) = columns THEN NewLine(t) ELSE t
    <2>1. ColumnOf(t) < columns \/ ColumnOf(t) = columns
      BY TextParts, GridAssumption
    <2>2. u \in Texts /\ ColumnOf(u) < columns /\ ShowsText(room, u)
      <3>1. CASE ColumnOf(t) < columns
        <4>1. ColumnOf(t) # columns
          BY <3>1, TextParts, GridAssumption
        <4> QED BY <3>1, <4>1 DEF ShowsText
      <3>2. CASE ColumnOf(t) = columns
        <4>1. ~(con.column < columns)
          BY <3>2, GridAssumption DEF ShowsText
        <4>2. NewLine(t) \in Texts /\ ColumnOf(NewLine(t)) < columns
          BY NewLineText, GridAssumption
        <4> QED BY <3>2, <4>1, <4>2, FastNewLine
      <3> QED BY <2>1, <3>1, <3>2
    <2>3. After(t, char) = MoreOf(u, char)
      BY <1>2 DEF After
    <2>4. LET new == fast_put(con, char)
          IN  /\ new.screen = Drawn(room.screen, room.row, room.column, char)
              /\ new.row = room.row /\ new.column = room.column + 1
      BY <1>2 DEF fast_put
    <2> HIDE DEF room, u
    <2> QED BY <1>2, <2>2, <2>3, <2>4, DrawnGrid DEF ShowsText
  <1> QED BY <1>1, <1>2
\* Both consoles are at the end of the text and show its last lines.
TextInv ==
    /\ lines \in Texts
    /\ buffer = Grid(lines) /\ slow = Grid(lines)
    /\ slow_row = RowOf(lines) /\ slow_column = ColumnOf(lines)
    /\ fast = Grid(lines) /\ fast_row = RowOf(lines) /\ fast_column = ColumnOf(lines)

\* What the invariant says of the cells
LEMMA TextInvShows == TextInv => ShowsLastLines
  BY DEF TextInv, ShowsLastLines, LastLines, Grid, CellOf

\* The empty text has one line.
LEMMA InitTextInv == ConsoleInit => TextInv
  <1>1. PICK t : t = <<<<>>>>
    OBVIOUS
  <1>2. t \in Seq(Seq(Glyphs)) /\ t # <<>> /\ Len(t) = 1 /\ t[1] = <<>> /\ Len(<<>>) = 0
    BY <1>1
  <1>3. t \in Texts /\ ColumnOf(t) = 0 /\ RowOf(t) = 0
    <2>1. min(1, rows) - 1 = 0
      BY GridAssumption DEF min
    <2>2. \A n \in 1..Len(t) : Len(t[n]) <= columns
      <3>1. \A n \in 1..1 : n = 1
        OBVIOUS
      <3>2. 0 <= columns
        BY GridAssumption
      <3> QED BY <1>2, <3>1, <3>2
    <2>3. t \in Texts
      BY <1>2, <2>2 DEF Texts
    <2> QED BY <1>2, <2>1, <2>3 DEF ColumnOf, RowOf
  <1>4. ASSUME NEW cell \in Cells PROVE CellOf(t, cell) = {}
    <2>1. PICK y \in Nat, x \in Nat : cell = <<y, x>>
      BY CellParts, GridAssumption
    <2>2. max(0, Len(t) - rows) = 0
      BY <1>2, GridAssumption DEF max
    <2>a. PICK n \in Nat \ {0} : n = y + 1
      OBVIOUS
    <2>b. Len(t) \in Nat /\ n = max(0, Len(t) - rows) + y + 1
      BY <1>2, <2>2, <2>a
    <2>3. CellOf(t, cell) = CharAt(LineAt(t, n), x)
      BY <2>1, <2>b, CellIsChar
    <2>4. LineAt(t, n) = <<>>
      BY <1>2 DEF LineAt
    <2> QED BY <1>2, <2>3, <2>4 DEF CharAt
  <1>5. Grid(t) = Blank
    BY <1>4 DEF Grid, Blank
  <1> QED BY <1>1, <1>3, <1>5 DEF ConsoleInit, TextInv

\* Every character keeps both consoles at the end of the text.
LEMMA PutTextInv == ASSUME TextInv, NEW char \in Glyphs \cup {Newline}, Put(char) PROVE TextInv'
  <1>1. PICK t \in Texts : t = lines
    BY DEF TextInv
  <1>2. PICK con : con = [buffer |-> buffer, screen |-> slow, row |-> slow_row, column |-> slow_column]
    OBVIOUS
  <1>3. ShowsText(con, t) /\ con.buffer = Grid(t)
    BY <1>1, <1>2 DEF ShowsText, TextInv
  <1>4. PICK fcon : fcon = [screen |-> fast, row |-> fast_row, column |-> fast_column,
                            damage |-> damage]
    OBVIOUS
  <1>5. ShowsText(fcon, t)
    BY <1>1, <1>4 DEF ShowsText, TextInv
  <1>6. PICK u \in Texts : u = After(t, char) /\ lines' = u
    BY <1>1, WithCharAfter DEF Put
  <1>7. PICK new : new = slow_put(con, char)
    OBVIOUS
  <1>8. PICK fnew : fnew = fast_put(fcon, char)
    OBVIOUS
  <1>9. ShowsText(new, u) /\ new.buffer = Grid(u) /\ ShowsText(fnew, u)
    BY <1>3, <1>5, <1>6, <1>7, <1>8, SlowPut, FastPut
  <1>10. /\ buffer' = new.buffer /\ slow' = new.screen
         /\ slow_row' = new.row /\ slow_column' = new.column
         /\ fast' = fnew.screen /\ fast_row' = fnew.row /\ fast_column' = fnew.column
    BY <1>2, <1>4, <1>7, <1>8 DEF Put
  <1> QED BY <1>6, <1>9, <1>10 DEF ShowsText, TextInv

\* The consoles' text invariant
LEMMA TextInvariant == ConsoleSpec => []TextInv
  <1>1. TextInv /\ [ConsoleNext]_console_vars => TextInv'
    <2> SUFFICES ASSUME TextInv, [ConsoleNext]_console_vars PROVE TextInv'
      OBVIOUS
    <2>1. CASE PainterEnd \/ UNCHANGED console_vars
      BY <2>1 DEF PainterEnd, console_vars, slow_console, fast_console, TextInv
    <2> QED BY <2>1, PutTextInv DEF ConsoleNext
  <1> QED BY <1>1, InitTextInv, PTL DEF ConsoleSpec

\* For any number of rows and columns and any text, both consoles show its last lines,
\* and no glyph is drawn over another one (Console, FastConsole::new_line).
THEOREM ShowsLines == ConsoleSpec => []ShowsLastLines
  BY TextInvariant, TextInvShows, PTL

-----------------------------------------------------------------------------
(* The consoles: the damage.                                                *)

\* Cell is inside of the rectangle
InRect(rect, cell) == includes_point(rect, <<cell[2], cell[1]>>)

\* The rectangle that is collected holds the old one and the new one.
LEMMA DamageGrows ==
    ASSUME NEW old \in Rects, NEW rect \in Rects
    PROVE  /\ raw_damage(old, rect) \in Rects
           /\ \A cell \in Cells : InRect(old, cell) \/ InRect(rect, cell)
                                    => InRect(raw_damage(old, rect), cell)
  <1>1. /\ old.left \in Int /\ old.top \in Int /\ old.right \in Int /\ old.bottom \in Int
        /\ rect.left \in Int /\ rect.top \in Int /\ rect.right \in Int /\ rect.bottom \in Int
    BY DEF Rects
  <1>2. CASE old = NoDamage
    <2>1. old.left = 0 /\ old.right = 0
      BY <1>2 DEF NoDamage, RectOf
    <2>2. \A cell \in Cells : ~InRect(old, cell)
      <3> SUFFICES ASSUME NEW cell \in Cells PROVE ~InRect(old, cell)
        OBVIOUS
      <3>1. PICK x \in Nat : x = cell[2]
        BY CellParts, GridAssumption
      <3> QED BY <2>1, <3>1 DEF InRect, includes_point
    <2> QED BY <1>2, <2>2 DEF raw_damage
  <1>3. CASE old # NoDamage
    <2>1. PICK m : m = raw_damage(old, rect)
      OBVIOUS
    <2>2. m = [left |-> min(old.left, rect.left), top |-> min(old.top, rect.top),
               right |-> max(old.right, rect.right), bottom |-> max(old.bottom, rect.bottom)]
      BY <1>3, <2>1 DEF raw_damage, merge, RectOf, VectorMin, VectorMax, top_left, bottom_right
    <2>3. /\ m.left \in Int /\ m.left <= old.left /\ m.left <= rect.left
          /\ m.top \in Int /\ m.top <= old.top /\ m.top <= rect.top
          /\ m.right \in Int /\ old.right <= m.right /\ rect.right <= m.right
          /\ m.bottom \in Int /\ old.bottom <= m.bottom /\ rect.bottom <= m.bottom
      BY <1>1, <2>2 DEF min, max
    <2>4. m \in Rects
      BY <2>2, <2>3 DEF Rects
    <2>5. ASSUME NEW cell \in Cells, InRect(old, cell) \/ InRect(rect, cell) PROVE InRect(m, cell)
      <3>1. PICK y \in Nat, x \in Nat : y = cell[1] /\ x = cell[2]
        BY CellParts, GridAssumption
      <3> QED BY <1>1, <2>3, <2>5, <3>1 DEF InRect, includes_point
    <2> QED BY <2>1, <2>4, <2>5
  <1> QED BY <1>2, <1>3

\* Scrolling damages every cell.
LEMMA ScrollDamagesAll ==
    ScrollDamage \in Rects /\ \A cell \in Cells : InRect(ScrollDamage, cell)
  <1>1. PICK m : m = ScrollDamage
    OBVIOUS
  <1>2. m = [left |-> min(0, 0), top |-> min(0, rows - 1),
             right |-> max(columns, columns), bottom |-> max(rows - 1, rows)]
    BY <1>1 DEF ScrollDamage, merge, RectOf, VectorMin, VectorMax, top_left, bottom_right
  <1>3. m.left = 0 /\ m.top = 0 /\ m.right = columns /\ m.bottom = rows
    BY <1>2, GridAssumption DEF min, max
  <1>4. m \in Rects
    BY <1>2, <1>3, GridAssumption DEF Rects
  <1>5. ASSUME NEW cell \in Cells PROVE InRect(m, cell)
    <2>1. cell[1] \in 0..(rows - 1) /\ cell[2] \in 0..(columns - 1)
      BY CellParts
    <2> QED BY <1>3, <2>1, GridAssumption DEF InRect, includes_point
  <1> QED BY <1>1, <1>4, <1>5

\* The rectangle collected from old on holds it and every cell that is not as before.
Collected(old, before, new, after) ==
    /\ new \in Rects
    /\ \A cell \in Cells : InRect(old, cell) => InRect(new, cell)
    /\ \A cell \in Cells : InRect(new, cell) \/ after[cell] = before[cell]

\* new_line of FastConsole
LEMMA NewLineDamage ==
    ASSUME NEW con, con.damage \in Rects
    PROVE  Collected(con.damage, con.screen, fast_new_line(con).damage, fast_new_line(con).screen)
  <1>1. CASE HasRowBelow(con.row)
    BY <1>1 DEF fast_new_line, Collected
  <1>2. CASE ~HasRowBelow(con.row)
    <2>1. fast_new_line(con).damage = raw_damage(con.damage, ScrollDamage)
      BY <1>2 DEF fast_new_line
    <2> QED BY <2>1, ScrollDamagesAll, DamageGrows DEF Collected
  <1> QED BY <1>1, <1>2

\* Drawing a glyph
LEMMA DrawDamage ==
    ASSUME NEW old \in Rects, NEW cells, DOMAIN cells = Cells, NEW y \in Nat, NEW x \in Nat, NEW char
    PROVE  LET rect == RectOf(<<x, y>>, <<x + 1, y + 1>>)
           IN  Collected(old, cells, raw_damage(old, rect), Drawn(cells, y, x, char))
  <1>1. PICK rect : rect = RectOf(<<x, y>>, <<x + 1, y + 1>>)
    OBVIOUS
  <1>2. rect.left = x /\ rect.top = y /\ rect.right = x + 1 /\ rect.bottom = y + 1 /\ rect \in Rects
    BY <1>1 DEF RectOf, Rects
  <1>3. ASSUME NEW cell \in Cells, Drawn(cells, y, x, char)[cell] # cells[cell]
        PROVE  InRect(rect, cell)
    <2>1. cell = <<y, x>>
      BY <1>3 DEF Drawn
    <2> QED BY <1>2, <2>1 DEF InRect, includes_point
  <1> QED BY <1>1, <1>2, <1>3, DamageGrows DEF Collected
\* One character on FastConsole
LEMMA PutDamage ==
    ASSUME NEW t \in Texts, NEW con, ShowsText(con, t), con.damage \in Rects,
           NEW char \in Glyphs \cup {Newline}
    PROVE  Collected(con.damage, con.screen, fast_put(con, char).damage, fast_put(con, char).screen)
  <1>1. CASE char = Newline
    BY <1>1, NewLineDamage DEF fast_put
  <1>2. CASE char # Newline
    <2>1. PICK room : room = IF con.column < columns THEN con ELSE fast_new_line(con)
      OBVIOUS
    <2>2. PICK u \in Texts : ShowsText(room, u)
      <3>1. CASE con.column < columns
        BY <2>1, <3>1
      <3>2. CASE ~(con.column < columns)
        BY <2>1, <3>2, FastNewLine, NewLineText
      <3> QED BY <3>1, <3>2
    <2>3. Collected(con.damage, con.screen, room.damage, room.screen)
      <3>1. CASE con.column < columns
        BY <2>1, <3>1 DEF Collected
      <3>2. CASE ~(con.column < columns)
        BY <2>1, <3>2, NewLineDamage
      <3> QED BY <3>1, <3>2
    <2>4. PICK y \in Nat, x \in Nat : y = room.row /\ x = room.column
      <3>1. RowOf(u) \in Rows /\ ColumnOf(u) \in 0..columns
        BY TextParts
      <3>2. RowOf(u) \in Nat /\ ColumnOf(u) \in Nat
        BY <3>1, GridAssumption DEF Rows
      <3> QED BY <2>2, <3>2 DEF ShowsText
    <2>5. DOMAIN room.screen = Cells
      BY <2>2 DEF ShowsText, Grid
    <2>6. PICK new : new = fast_put(con, char)
      OBVIOUS
    <2>7. /\ new.screen = Drawn(room.screen, y, x, char)
          /\ new.damage = raw_damage(room.damage, RectOf(<<x, y>>, <<x + 1, y + 1>>))
      BY <1>2, <2>1, <2>4, <2>6 DEF fast_put
    <2>8. Collected(room.damage, room.screen, new.damage, new.screen)
      <3>1. room.damage \in Rects
        BY <2>3 DEF Collected
      <3> QED BY <2>5, <2>7, <3>1, DrawDamage
    <2>9. Collected(con.damage, con.screen, new.damage, new.screen)
      BY <2>3, <2>8 DEF Collected
    <2> QED BY <2>6, <2>9
  <1> QED BY <1>1, <1>2

\* Outside of the damage the screen shows the layer; outside of put_string everywhere.
DamageInv ==
    /\ damage \in Rects
    /\ DOMAIN seen = Cells /\ seen = [cell \in Cells |-> seen[cell]]
    /\ \A cell \in Cells : InRect(damage, cell) \/ seen[cell] = fast[cell]
    /\ DamageCovers

\* At first both are blank.
LEMMA InitDamageInv == ConsoleInit => DamageInv
  BY DEF ConsoleInit, DamageInv, DamageCovers, Blank, NoDamage, RectOf, Rects

\* Every step keeps what is not damaged as it is seen.
LEMMA NextDamageInv == TextInv /\ DamageInv /\ [ConsoleNext]_console_vars => DamageInv'
  <1> SUFFICES ASSUME TextInv, DamageInv, [ConsoleNext]_console_vars PROVE DamageInv'
    OBVIOUS
  <1>1. ASSUME NEW char \in Glyphs \cup {Newline}, Put(char) PROVE DamageInv'
    <2>1. PICK con : con = [screen |-> fast, row |-> fast_row, column |-> fast_column,
                            damage |-> damage]
      OBVIOUS
    <2>2. con.screen = fast /\ con.damage = damage /\ ShowsText(con, lines)
      BY <2>1 DEF ShowsText, TextInv
    <2>3. PICK new : new = fast_put(con, char)
      OBVIOUS
    <2>4. fast' = new.screen /\ damage' = new.damage /\ seen' = seen /\ writing'
      BY <1>1, <2>1, <2>3 DEF Put
    <2>5. Collected(damage, fast, damage', fast')
      BY <2>2, <2>3, <2>4, PutDamage DEF TextInv, DamageInv
    <2> QED BY <2>4, <2>5 DEF DamageInv, DamageCovers, Collected
  <1>2. CASE PainterEnd
    <2>1. /\ seen' = [cell \in Cells |-> IF InRect(damage, cell) THEN fast[cell] ELSE seen[cell]]
          /\ fast' = fast /\ damage' = NoDamage
      BY <1>2 DEF PainterEnd, InRect
    <2>2. \A cell \in Cells : seen'[cell] = fast[cell]
      BY <2>1 DEF DamageInv
    <2>3. fast = [cell \in Cells |-> fast[cell]]
      BY DEF TextInv, Grid
    <2>4. seen' = fast
      BY <2>1, <2>2, <2>3
    <2>5. damage' \in Rects
      BY <2>1 DEF NoDamage, RectOf, Rects
    <2> QED BY <2>1, <2>3, <2>4, <2>5 DEF DamageInv, DamageCovers
  <1>3. CASE UNCHANGED console_vars
    BY <1>3 DEF console_vars, fast_console, DamageInv, DamageCovers
  <1> QED BY <1>1, <1>2, <1>3 DEF ConsoleNext

\* Whatever was drawn and scrolled between, the screen shows the layer when put_string
\* has returned (Painter::raw_damage, Painter::end).
THEOREM DamageSuffices == ConsoleSpec => []DamageCovers
  <1>1. DamageInv => DamageCovers
    BY DEF DamageInv
  <1> QED BY <1>1, TextInvariant, InitDamageInv, NextDamageInv, PTL DEF ConsoleSpec

-----------------------------------------------------------------------------
(* Layers: what a copy and the drawing of a layer do to a point             *)

\* adjust_coords returns integers.
LEMMA ClipTypes ==
    ASSUME NEW to_size \in Int, NEW src_size \in Int,
           NEW to_pos \in Int, NEW src_pos \in Int, NEW len \in Int
    PROVE  LET r == adjust_coords(to_size, src_size, to_pos, src_pos, len)
           IN  r.to \in Int /\ r.src \in Int /\ r.len \in Int
<1> DEFINE len1 == decrease_d(len, src_pos)
           to1  == increase_d(to_pos, src_pos)
           src1 == max(src_pos, 0)
           len2 == decrease_d(len1, to1)
           src2 == increase_d(src1, to1)
           to2  == max(to1, 0)
<1>1. len1 \in Int /\ to1 \in Int /\ src1 \in Int
  BY DEF decrease_d, increase_d, max
<1>2. adjust_coords(to_size, src_size, to_pos, src_pos, len)
         = [to |-> to2, src |-> src2, len |-> min(len2, min(to_size - to2, src_size - src2))]
  BY DEF adjust_coords
<1> HIDE DEF len1, to1, src1
<1>3. len2 \in Int /\ src2 \in Int /\ to2 \in Int
  BY <1>1 DEF decrease_d, increase_d, max
<1> HIDE DEF len2, src2, to2
<1>4. min(len2, min(to_size - to2, src_size - src2)) \in Int
  BY <1>3 DEF min
<1> QED BY <1>2, <1>3, <1>4

\* The point of the source that a copy from src_pos to to_pos brings to p
SourceOf(to_pos, src_pos, p) == <<p[1] - to_pos[1] + src_pos[1], p[2] - to_pos[2] + src_pos[2]>>

\* r is dst with the part of src copied into it.
Copied(dst, dst_size, src, src_size, to_pos, src_pos, extent, transparent, r) ==
    /\ r = [p \in Points(dst_size) |-> r[p]]
    /\ \A p \in Points(dst_size) :
          r[p] = IF /\ Within(to_pos, extent, p)
                    /\ SourceOf(to_pos, src_pos, p) \in Points(src_size)
                    /\ src[SourceOf(to_pos, src_pos, p)] # transparent
                 THEN src[SourceOf(to_pos, src_pos, p)] ELSE dst[p]

\* What copy_from does to each point.
LEMMA CopyAt ==
    ASSUME NEW dst_size \in Nat \X Nat, NEW dst, DOMAIN dst = Points(dst_size),
           NEW src_size \in Nat \X Nat, NEW src, NEW to_pos \in Int \X Int,
           NEW src_pos \in Int \X Int, NEW extent \in Int \X Int, NEW transparent,
           NEW r, r = copy_from(dst, dst_size, src, src_size, to_pos, src_pos, extent, transparent)
    PROVE  Copied(dst, dst_size, src, src_size, to_pos, src_pos, extent, transparent, r)
<1> DEFINE x == adjust_coords(dst_size[1], src_size[1], to_pos[1], src_pos[1], extent[1])
           y == adjust_coords(dst_size[2], src_size[2], to_pos[2], src_pos[2], extent[2])
           written == RectOf(<<x.to, y.to>>, <<x.to + x.len, y.to + y.len>>)
           Source(p) == src[<<p[1] - x.to + x.src, p[2] - y.to + y.src>>]
<1>1. r = [p \in DOMAIN dst |-> IF includes_point(written, p) /\ Source(p) # transparent
                                THEN Source(p) ELSE dst[p]]
  BY DEF copy_from
<1>0. /\ dst_size[1] \in Int /\ dst_size[2] \in Int /\ src_size[1] \in Int /\ src_size[2] \in Int
      /\ to_pos[1] \in Int /\ to_pos[2] \in Int /\ src_pos[1] \in Int /\ src_pos[2] \in Int
      /\ extent[1] \in Int /\ extent[2] \in Int
  OBVIOUS
<1>2. /\ x.to \in Int /\ x.src \in Int /\ x.len \in Int
      /\ y.to \in Int /\ y.src \in Int /\ y.len \in Int
  <2>1. x.to \in Int /\ x.src \in Int /\ x.len \in Int
    BY <1>0, ClipTypes, Zenon DEF x
  <2>2. y.to \in Int /\ y.src \in Int /\ y.len \in Int
    BY <1>0, ClipTypes, Zenon DEF y
  <2> QED BY <2>1, <2>2
<1>3. /\ x.src - x.to = src_pos[1] - to_pos[1]
      /\ \A k \in Int : (x.to <= k /\ k < x.to + x.len) <=>
                           /\ to_pos[1] <= k /\ k < to_pos[1] + extent[1]
                           /\ 0 <= k /\ k < dst_size[1]
                           /\ 0 <= k - to_pos[1] + src_pos[1]
                           /\ k - to_pos[1] + src_pos[1] < src_size[1]
  BY ClipExact
<1>4. /\ y.src - y.to = src_pos[2] - to_pos[2]
      /\ \A k \in Int : (y.to <= k /\ k < y.to + y.len) <=>
                           /\ to_pos[2] <= k /\ k < to_pos[2] + extent[2]
                           /\ 0 <= k /\ k < dst_size[2]
                           /\ 0 <= k - to_pos[2] + src_pos[2]
                           /\ k - to_pos[2] + src_pos[2] < src_size[2]
  BY ZenonT(30), ClipExact
<1> HIDE DEF x, y
<1>5. ASSUME NEW p \in Points(dst_size)
      PROVE  /\ <<p[1] - x.to + x.src, p[2] - y.to + y.src>> = SourceOf(to_pos, src_pos, p)
             /\ includes_point(written, p) <=> /\ Within(to_pos, extent, p)
                                               /\ SourceOf(to_pos, src_pos, p) \in Points(src_size)
  <2>1. p \in Int \X Int /\ 0 <= p[1] /\ p[1] < dst_size[1] /\ 0 <= p[2] /\ p[2] < dst_size[2]
    BY DEF Points
  <2>2. /\ p[1] - x.to + x.src = p[1] - to_pos[1] + src_pos[1]
        /\ p[2] - y.to + y.src = p[2] - to_pos[2] + src_pos[2]
    BY SMTT(30), <1>2, <1>3, <1>4, <2>1
  <2>3. includes_point(written, p) <=> /\ x.to <= p[1] /\ p[1] < x.to + x.len
                                       /\ y.to <= p[2] /\ p[2] < y.to + y.len
    BY DEF includes_point, RectOf
  <2>4. SourceOf(to_pos, src_pos, p) \in Points(src_size) <=>
           /\ 0 <= p[1] - to_pos[1] + src_pos[1] /\ p[1] - to_pos[1] + src_pos[1] < src_size[1]
           /\ 0 <= p[2] - to_pos[2] + src_pos[2] /\ p[2] - to_pos[2] + src_pos[2] < src_size[2]
    BY <2>1 DEF SourceOf, Points
  <2>5. Within(to_pos, extent, p) <=> /\ to_pos[1] <= p[1] /\ p[1] < to_pos[1] + extent[1]
                                      /\ to_pos[2] <= p[2] /\ p[2] < to_pos[2] + extent[2]
    BY DEF Within
  <2>6. /\ (x.to <= p[1] /\ p[1] < x.to + x.len) <=>
                           /\ to_pos[1] <= p[1] /\ p[1] < to_pos[1] + extent[1]
                           /\ 0 <= p[1] - to_pos[1] + src_pos[1]
                           /\ p[1] - to_pos[1] + src_pos[1] < src_size[1]
        /\ (y.to <= p[2] /\ p[2] < y.to + y.len) <=>
                           /\ to_pos[2] <= p[2] /\ p[2] < to_pos[2] + extent[2]
                           /\ 0 <= p[2] - to_pos[2] + src_pos[2]
                           /\ p[2] - to_pos[2] + src_pos[2] < src_size[2]
    BY <1>3, <1>4, <2>1
  <2> HIDE DEF written
  <2>7. <<p[1] - x.to + x.src, p[2] - y.to + y.src>> = SourceOf(to_pos, src_pos, p)
    BY <2>2 DEF SourceOf
  <2> QED BY <2>3, <2>4, <2>5, <2>6, <2>7
<1> HIDE DEF written
<1>6. r = [p \in Points(dst_size) |-> r[p]]
  BY <1>1
<1>7. ASSUME NEW p \in Points(dst_size)
      PROVE  r[p] = IF /\ Within(to_pos, extent, p)
                       /\ SourceOf(to_pos, src_pos, p) \in Points(src_size)
                       /\ src[SourceOf(to_pos, src_pos, p)] # transparent
                    THEN src[SourceOf(to_pos, src_pos, p)] ELSE dst[p]
  <2>1. r[p] = IF includes_point(written, p) /\ Source(p) # transparent
                                THEN Source(p) ELSE dst[p]
    BY <1>1
  <2>2. Source(p) = src[SourceOf(to_pos, src_pos, p)]
    BY <1>5
  <2> HIDE DEF Source
  <2> QED BY <1>5, <2>1, <2>2
<1> QED BY <1>6, <1>7 DEF Copied

\* The images of a size
Images(extent) == [Points(extent) -> Colors]

\* A picture has integer positions, and contents of the size of their layers.
IsPicture(pic) ==
    /\ pic = [stack |-> pic.stack, pos |-> pic.pos, contents |-> pic.contents,
              back |-> pic.back, screen |-> pic.screen]
    /\ pic.contents = [l \in Layers |-> pic.contents[l]]
    /\ pic.pos \in [Layers -> Int \X Int]
    /\ \A l \in Layers : pic.contents[l] \in Images(LayerSizes[l])

\* The colour of a layer at the point p of its manager
ColorAt(pic, l, p) == pic.contents[l][Subtract(p, pic.pos[l])]

\* The layer is seen at p if nothing is in front of it.
Visible(pic, l, p) ==
    includes_point(manager_area(pic, l), p) /\ ColorAt(pic, l, p) # TransparentColor(l)

\* after is before with what is visible of a layer in rect drawn over it.
Over(pic, l, rect, extent, before, after) ==
    before \in Images(extent) =>
        /\ after \in Images(extent)
        /\ \A p \in Points(extent) :
              after[p] = IF includes_point(rect, p) /\ Visible(pic, l, p)
                         THEN ColorAt(pic, l, p) ELSE before[p]

\* A point lies in the area of a layer if it comes from one of the layer's points.
LEMMA AreaPoints ==
    ASSUME NEW pic, IsPicture(pic), NEW l \in Layers, NEW p \in Int \X Int
    PROVE  /\ pic.pos[l] \in Int \X Int /\ LayerSizes[l] \in Nat \X Nat
           /\ manager_area(pic, l) \in Rects
           /\ includes_point(manager_area(pic, l), p) <=> Within(pic.pos[l], LayerSizes[l], p)
           /\ includes_point(manager_area(pic, l), p)
                 <=> Subtract(p, pic.pos[l]) \in Points(LayerSizes[l])
           /\ includes_point(manager_area(pic, l), p) => ColorAt(pic, l, p) \in Colors
<1>1. pic.pos[l] \in Int \X Int /\ LayerSizes[l] \in Nat \X Nat
  BY SizesAssumption DEF IsPicture
<1>2. includes_point(manager_area(pic, l), p) <=> Within(pic.pos[l], LayerSizes[l], p)
  BY AreaIncludes
<1>3. Within(pic.pos[l], LayerSizes[l], p) <=> Subtract(p, pic.pos[l]) \in Points(LayerSizes[l])
  BY <1>1 DEF Within, Subtract, Points
<1>4. manager_area(pic, l) \in Rects
  BY <1>1 DEF manager_area, RectOf, Rects, Add
<1>5. pic.contents[l] \in [Points(LayerSizes[l]) -> Colors]
  BY DEF IsPicture, Images
<1> QED BY <1>1, <1>2, <1>3, <1>4, <1>5 DEF ColorAt

\* Drawing a layer whole draws it over all points of the buffer.
LEMMA DrawnWhole ==
    ASSUME NEW pic, IsPicture(pic), NEW l \in Layers, NEW extent \in Nat \X Nat, NEW dst,
           NEW rect, \A p \in Points(extent) : includes_point(rect, p)
    PROVE  Over(pic, l, rect, extent, dst, draw_layer_to(pic, l, dst, extent))
<1> SUFFICES ASSUME dst \in Images(extent)
             PROVE  Over(pic, l, rect, extent, dst, draw_layer_to(pic, l, dst, extent))
  BY DEF Over
<1>1. /\ pic.pos[l] \in Int \X Int /\ LayerSizes[l] \in Nat \X Nat /\ LayerSizes[l] \in Int \X Int
      /\ <<0, 0>> \in Int \X Int
  BY SizesAssumption DEF IsPicture
<1>2. PICK r : r = draw_layer_to(pic, l, dst, extent)
  OBVIOUS
<1>3. r = copy_from(dst, extent, pic.contents[l], LayerSizes[l], pic.pos[l], <<0, 0>>,
                    LayerSizes[l], TransparentColor(l))
  BY <1>2 DEF draw_layer_to
<1>4. DOMAIN dst = Points(extent)
  BY DEF Images
<1>5. /\ r = [p \in Points(extent) |-> r[p]]
      /\ \A p \in Points(extent) :
                 r[p] = IF /\ Within(pic.pos[l], LayerSizes[l], p)
                           /\ SourceOf(pic.pos[l], <<0, 0>>, p) \in Points(LayerSizes[l])
                           /\ pic.contents[l][SourceOf(pic.pos[l], <<0, 0>>, p)] # TransparentColor(l)
                        THEN pic.contents[l][SourceOf(pic.pos[l], <<0, 0>>, p)] ELSE dst[p]
  <2>1. Copied(dst, extent, pic.contents[l], LayerSizes[l], pic.pos[l], <<0, 0>>,
               LayerSizes[l], TransparentColor(l), r)
    BY <1>1, <1>3, <1>4, CopyAt, Zenon
  <2> QED BY <2>1 DEF Copied
<1>6. ASSUME NEW p \in Points(extent)
      PROVE  /\ r[p] = IF Visible(pic, l, p) THEN ColorAt(pic, l, p) ELSE dst[p]
             /\ r[p] \in Colors
  <2>1. p \in Int \X Int
    BY DEF Points
  <2>2. SourceOf(pic.pos[l], <<0, 0>>, p) = Subtract(p, pic.pos[l])
    BY <1>1, <2>1 DEF SourceOf, Subtract
  <2>3. r[p] = IF Visible(pic, l, p) THEN ColorAt(pic, l, p) ELSE dst[p]
    BY <1>5, <2>1, <2>2, AreaPoints DEF Visible, ColorAt
  <2>4. dst[p] \in Colors
    BY DEF Images
  <2> QED BY <2>1, <2>3, <2>4, AreaPoints DEF Visible
<1>7. r \in Images(extent)
  BY <1>5, <1>6 DEF Images
<1> QED BY <1>2, <1>6, <1>7 DEF Over

\* Drawing the damaged part of a layer draws it over the points of the damage.
LEMMA DrawnDamaged ==
    ASSUME NEW pic, IsPicture(pic), NEW l \in Layers, NEW extent \in Nat \X Nat, NEW dst,
           NEW rect \in Rects
    PROVE  Over(pic, l, rect, extent, dst, draw_damaged_layer_to(pic, l, dst, extent, rect))
<1> SUFFICES ASSUME dst \in Images(extent)
             PROVE  Over(pic, l, rect, extent, dst,
                         draw_damaged_layer_to(pic, l, dst, extent, rect))
  BY DEF Over
<1>1. /\ pic.pos[l] \in Int \X Int /\ LayerSizes[l] \in Nat \X Nat
  BY SizesAssumption DEF IsPicture
<1>2. PICK r : r = draw_damaged_layer_to(pic, l, dst, extent, rect)
  OBVIOUS
<1>3. PICK area : area = manager_area(pic, l)
  OBVIOUS
<1>4. area \in Rects
  BY <1>1, <1>3 DEF manager_area, RectOf, Rects, Add
<1>5. PICK part : part = cross(rect, area)
  OBVIOUS
<1>6. /\ part \in Rects
      /\ top_left(part) \in Int \X Int /\ size(part) \in Int \X Int
      /\ Subtract(top_left(part), pic.pos[l]) \in Int \X Int
  <2>1. part \in Rects
    BY <1>4, <1>5 DEF cross, RectOf, VectorMax, VectorMin, min, max, Rects, top_left, bottom_right
  <2> QED BY <2>1, <1>1 DEF Rects, top_left, size, Subtract, bottom_right
<1>7. ASSUME NEW p \in Int \X Int
      PROVE  /\ Within(top_left(part), size(part), p)
                   <=> includes_point(rect, p) /\ includes_point(area, p)
             /\ includes_point(rect, p) /\ includes_point(area, p) => is_crossing(rect, area)
             /\ SourceOf(top_left(part), Subtract(top_left(part), pic.pos[l]), p)
                   = Subtract(p, pic.pos[l])
  <2>1. Within(top_left(part), size(part), p) <=> includes_point(part, p)
    BY <1>6 DEF Within, top_left, size, bottom_right, Subtract, includes_point, Rects
  <2>2. includes_point(part, p) <=> includes_point(rect, p) /\ includes_point(area, p)
    BY <1>4, <1>5 DEF cross, RectOf, VectorMax, VectorMin, min, max, Rects, top_left, bottom_right,
                      includes_point
  <2>3. includes_point(rect, p) /\ includes_point(area, p) => is_crossing(rect, area)
    BY <1>4 DEF is_crossing, includes_point, Rects
  <2>4. SourceOf(top_left(part), Subtract(top_left(part), pic.pos[l]), p) = Subtract(p, pic.pos[l])
    BY <1>1, <1>6 DEF SourceOf, Subtract
  <2> QED BY <2>1, <2>2, <2>3, <2>4
<1>8. DOMAIN dst = Points(extent) /\ dst = [p \in Points(extent) |-> dst[p]]
  BY DEF Images
<1>9. /\ r = [p \in Points(extent) |-> r[p]]
      /\ \A p \in Points(extent) :
            r[p] = IF includes_point(rect, p) /\ Visible(pic, l, p) THEN ColorAt(pic, l, p) ELSE dst[p]
  <2>1. CASE ~is_crossing(rect, area)
    <3>1. r = dst
      BY <1>2, <1>3, <2>1 DEF draw_damaged_layer_to
    <3>2. \A p \in Points(extent) : ~(includes_point(rect, p) /\ Visible(pic, l, p))
      <4> SUFFICES ASSUME NEW p \in Points(extent)
                   PROVE  ~(includes_point(rect, p) /\ Visible(pic, l, p))
        OBVIOUS
      <4>1. p \in Int \X Int
        BY DEF Points
      <4> QED BY <4>1, <1>3, <1>7, <2>1 DEF Visible
    <3> QED BY <1>8, <3>1, <3>2
  <2>2. CASE is_crossing(rect, area)
    <3>1. r = copy_from(dst, extent, pic.contents[l], LayerSizes[l], top_left(part),
                       Subtract(top_left(part), pic.pos[l]), size(part), TransparentColor(l))
      BY <1>2, <1>3, <1>5, <2>2 DEF draw_damaged_layer_to
    <3> DEFINE from == Subtract(top_left(part), pic.pos[l])
    <3>2. /\ r = [p \in Points(extent) |-> r[p]]
          /\ \A p \in Points(extent) :
                 r[p] = IF /\ Within(top_left(part), size(part), p)
                           /\ SourceOf(top_left(part), from, p) \in Points(LayerSizes[l])
                           /\ pic.contents[l][SourceOf(top_left(part), from, p)] # TransparentColor(l)
                        THEN pic.contents[l][SourceOf(top_left(part), from, p)] ELSE dst[p]
      <4>1. Copied(dst, extent, pic.contents[l], LayerSizes[l], top_left(part), from,
                   size(part), TransparentColor(l), r)
        BY <1>1, <1>6, <1>8, <3>1, CopyAt, Zenon
      <4> QED BY <4>1 DEF Copied
    <3> SUFFICES ASSUME NEW p \in Points(extent)
                 PROVE  r[p] = IF includes_point(rect, p) /\ Visible(pic, l, p)
                               THEN ColorAt(pic, l, p) ELSE dst[p]
      BY <3>2
    <3>3. p \in Int \X Int
      BY DEF Points
    <3>4. SourceOf(top_left(part), from, p) = Subtract(p, pic.pos[l])
      BY <1>7, <3>3
    <3>5. includes_point(area, p) <=> Subtract(p, pic.pos[l]) \in Points(LayerSizes[l])
      BY <1>3, <3>3, AreaPoints
    <3>6. Within(top_left(part), size(part), p)
                   <=> includes_point(rect, p) /\ includes_point(area, p)
      BY <1>7, <3>3
    <3> HIDE DEF from
    <3> QED BY <1>3, <3>2, <3>4, <3>5, <3>6 DEF Visible, ColorAt
  <2> QED BY <2>1, <2>2
<1>10. ASSUME NEW p \in Points(extent) PROVE r[p] \in Colors
  <2>1. p \in Int \X Int
    BY DEF Points
  <2>2. dst[p] \in Colors
    BY DEF Images
  <2> QED BY <1>9, <2>1, <2>2, AreaPoints DEF Visible
<1>11. r \in Images(extent)
  BY <1>9, <1>10 DEF Images
<1> QED BY <1>2, <1>9, <1>11 DEF Over

-----------------------------------------------------------------------------
(* Layers: drawing one after the other                                      *)

\* A set of natural numbers that is not empty has a least one.
LEMMA LeastNumber ==
    ASSUME NEW T \in SUBSET Nat, T # {}
    PROVE  \E m \in T : \A x \in T : m <= x
<1> DEFINE R == OpToRel(<, Nat)
<1>1. IsWellFoundedOn(R, Nat)
  BY NatLessThanWellFounded
<1>2. \E m \in T : \A x \in T : <<x, m>> \notin R
  <2> HIDE DEF R
  <2> QED BY <1>1, WFMin
<1>3. \A x, m \in Nat : <<x, m>> \notin R => m <= x
  BY DEF OpToRel
<1> QED BY <1>2, <1>3

\* f are the images that draw_damage_to goes through.
DamageImages(f, pic, drawn, n, dst, extent, rect) ==
    f = [k \in 0..n |-> IF k = 0 THEN dst
                        ELSE draw_damaged_layer_to(pic, drawn[k], f[k - 1], extent, rect)]

\* f are the images that draw_to goes through.
WholeImages(f, pic, drawn, n, dst, extent) ==
    f = [k \in 0..n |-> IF k = 0 THEN dst
                        ELSE draw_layer_to(pic, drawn[k], f[k - 1], extent)]

\* These images exist: those of the first layers go on with one more.
LEMMA DamageImagesExist ==
    ASSUME NEW pic, NEW drawn, NEW n \in Nat, NEW dst, NEW extent, NEW rect
    PROVE  \E f : DamageImages(f, pic, drawn, n, dst, extent, rect)
<1> DEFINE Good(m) == \E f : DamageImages(f, pic, drawn, m, dst, extent, rect)
           T == {m \in Nat : ~Good(m)}
<1>1. CASE T = {}
  BY <1>1
<1>2. CASE T # {}
  <2>1. PICK m \in T : \A x \in T : m <= x
    <3>1. T \in SUBSET Nat
      OBVIOUS
    <3> HIDE DEF T
    <3> QED BY <1>2, <3>1, LeastNumber
  <2>2. m \in Nat /\ ~Good(m)
    BY <2>1
  <2>3. CASE m = 0
    <3> DEFINE g == [k \in 0..0 |-> dst]
    <3>1. g = [k \in 0..0 |-> IF k = 0 THEN dst
                        ELSE draw_damaged_layer_to(pic, drawn[k], g[k - 1], extent, rect)]
      OBVIOUS
    <3>2. DamageImages(g, pic, drawn, 0, dst, extent, rect)
      BY <3>1 DEF DamageImages
    <3> QED BY <2>2, <2>3, <3>2
  <2>4. CASE m # 0
    <3>1. m - 1 \in Nat /\ Good(m - 1)
      BY <2>1, <2>4
    <3>2. PICK f : DamageImages(f, pic, drawn, m - 1, dst, extent, rect)
      BY <3>1
    <3> DEFINE NextImage(k, i) == draw_damaged_layer_to(pic, drawn[k], i, extent, rect)
               g == [k \in 0..m |-> IF k < m THEN f[k] ELSE NextImage(m, f[m - 1])]
    <3> HIDE DEF NextImage
    <3>3. f = [k \in 0..(m - 1) |-> IF k = 0 THEN dst ELSE NextImage(k, f[k - 1])]
      BY <3>2 DEF DamageImages, NextImage
    <3>4. ASSUME NEW k \in 0..m
          PROVE  g[k] = IF k = 0 THEN dst ELSE NextImage(k, g[k - 1])
      <4>1. CASE k < m
        <5>1. g[k] = f[k] /\ k \in 0..(m - 1) /\ (k # 0 => g[k - 1] = f[k - 1])
          BY <4>1, <2>2
        <5> QED BY <5>1, <3>3
      <4>2. CASE k = m
        BY <4>2, <2>2, <2>4
      <4> QED BY <4>1, <4>2, <2>2
    <3>5. g = [k \in 0..m |-> g[k]]
      OBVIOUS
    <3> HIDE DEF g
    <3>6. g = [k \in 0..m |-> IF k = 0 THEN dst ELSE NextImage(k, g[k - 1])]
      BY <3>4, <3>5
    <3>7. DamageImages(g, pic, drawn, m, dst, extent, rect)
      BY <3>6 DEF DamageImages, NextImage
    <3> QED BY <3>7, <2>2
  <2> QED BY <2>3, <2>4
<1> QED BY <1>1, <1>2

\* The same when the layers are drawn whole.
LEMMA WholeImagesExist ==
    ASSUME NEW pic, NEW drawn, NEW n \in Nat, NEW dst, NEW extent
    PROVE  \E f : WholeImages(f, pic, drawn, n, dst, extent)
<1> DEFINE Good(m) == \E f : WholeImages(f, pic, drawn, m, dst, extent)
           T == {m \in Nat : ~Good(m)}
<1>1. CASE T = {}
  BY <1>1
<1>2. CASE T # {}
  <2>1. PICK m \in T : \A x \in T : m <= x
    <3>1. T \in SUBSET Nat
      OBVIOUS
    <3> HIDE DEF T
    <3> QED BY <1>2, <3>1, LeastNumber
  <2>2. m \in Nat /\ ~Good(m)
    BY <2>1
  <2>3. CASE m = 0
    <3> DEFINE g == [k \in 0..0 |-> dst]
    <3>1. g = [k \in 0..0 |-> IF k = 0 THEN dst
                        ELSE draw_layer_to(pic, drawn[k], g[k - 1], extent)]
      OBVIOUS
    <3>2. WholeImages(g, pic, drawn, 0, dst, extent)
      BY <3>1 DEF WholeImages
    <3> QED BY <2>2, <2>3, <3>2
  <2>4. CASE m # 0
    <3>1. m - 1 \in Nat /\ Good(m - 1)
      BY <2>1, <2>4
    <3>2. PICK f : WholeImages(f, pic, drawn, m - 1, dst, extent)
      BY <3>1
    <3> DEFINE NextImage(k, i) == draw_layer_to(pic, drawn[k], i, extent)
               g == [k \in 0..m |-> IF k < m THEN f[k] ELSE NextImage(m, f[m - 1])]
    <3> HIDE DEF NextImage
    <3>3. f = [k \in 0..(m - 1) |-> IF k = 0 THEN dst ELSE NextImage(k, f[k - 1])]
      BY <3>2 DEF WholeImages, NextImage
    <3>4. ASSUME NEW k \in 0..m
          PROVE  g[k] = IF k = 0 THEN dst ELSE NextImage(k, g[k - 1])
      <4>1. CASE k < m
        <5>1. g[k] = f[k] /\ k \in 0..(m - 1) /\ (k # 0 => g[k - 1] = f[k - 1])
          BY <4>1, <2>2
        <5> QED BY <5>1, <3>3
      <4>2. CASE k = m
        BY <4>2, <2>2, <2>4
      <4> QED BY <4>1, <4>2, <2>2
    <3>5. g = [k \in 0..m |-> g[k]]
      OBVIOUS
    <3> HIDE DEF g
    <3>6. g = [k \in 0..m |-> IF k = 0 THEN dst ELSE NextImage(k, g[k - 1])]
      BY <3>4, <3>5
    <3>7. WholeImages(g, pic, drawn, m, dst, extent)
      BY <3>6 DEF WholeImages, NextImage
    <3> QED BY <3>7, <2>2
  <2> QED BY <2>3, <2>4
<1> QED BY <1>1, <1>2

\* The first k of the layers are drawn over old within rect, and new is seen at p.
SeenOver(pic, drawn, k, rect, p, old, new) ==
    \/ /\ includes_point(rect, p)
       /\ \E i \in 1..k : /\ Visible(pic, drawn[i], p) /\ new = ColorAt(pic, drawn[i], p)
                          /\ \A j \in (i + 1)..k : ~Visible(pic, drawn[j], p)
    \/ /\ includes_point(rect, p) => \A j \in 1..k : ~Visible(pic, drawn[j], p)
       /\ new = old

\* Of layers drawn one after the other, the frontmost that is visible is seen.
LEMMA Layered ==
    ASSUME NEW pic, NEW rect, NEW extent, NEW n \in Nat, NEW drawn, NEW f,
           f[0] \in Images(extent),
           \A k \in 1..n : Over(pic, drawn[k], rect, extent, f[k - 1], f[k])
    PROVE  /\ f[n] \in Images(extent)
           /\ \A p \in Points(extent) : SeenOver(pic, drawn, n, rect, p, f[0][p], f[n][p])
<1> DEFINE Good(k) == /\ f[k] \in Images(extent)
                      /\ \A p \in Points(extent) : SeenOver(pic, drawn, k, rect, p, f[0][p], f[k][p])
           T == {k \in 0..n : ~Good(k)}
<1>1. CASE T = {}
  BY <1>1
<1>2. CASE T # {}
  <2>1. PICK m \in T : \A x \in T : m <= x
    <3>1. T \in SUBSET Nat
      OBVIOUS
    <3> HIDE DEF T
    <3> QED BY <1>2, <3>1, LeastNumber
  <2>2. m \in 0..n /\ ~Good(m)
    BY <2>1
  <2>3. CASE m = 0
    <3>1. Good(0)
      BY DEF SeenOver
    <3> QED BY <2>2, <2>3, <3>1
  <2>4. CASE m # 0
    <3>1. m - 1 \in 0..n /\ m \in 1..n /\ Good(m - 1)
      <4>1. m - 1 \in 0..n /\ m \in 1..n /\ ~(m <= m - 1)
        BY <2>2, <2>4
      <4>2. m - 1 \notin T
        BY <2>1, <4>1
      <4> QED BY <4>1, <4>2
    <3>2. Over(pic, drawn[m], rect, extent, f[m - 1], f[m])
      BY <3>1
    <3>3. /\ f[m] \in Images(extent)
          /\ \A p \in Points(extent) :
                f[m][p] = IF includes_point(rect, p) /\ Visible(pic, drawn[m], p)
                          THEN ColorAt(pic, drawn[m], p) ELSE f[m - 1][p]
      BY <3>1, <3>2 DEF Over
    <3>4. ASSUME NEW p \in Points(extent) PROVE SeenOver(pic, drawn, m, rect, p, f[0][p], f[m][p])
      <4>1. SeenOver(pic, drawn, m - 1, rect, p, f[0][p], f[m - 1][p])
        BY <3>1
      <4>2. CASE ~includes_point(rect, p)
        BY <3>3, <4>1, <4>2 DEF SeenOver
      <4>3. CASE includes_point(rect, p) /\ Visible(pic, drawn[m], p)
        <5>1. f[m][p] = ColorAt(pic, drawn[m], p) /\ m \in 1..m /\ (m + 1)..m = {}
          BY <3>1, <3>3, <4>3
        <5> QED BY <4>3, <5>1 DEF SeenOver
      <4>4. CASE includes_point(rect, p) /\ ~Visible(pic, drawn[m], p)
        <5>1. f[m][p] = f[m - 1][p]
          BY <3>3, <4>4
        <5>2. CASE f[m - 1][p] = f[0][p] /\ \A j \in 1..(m - 1) : ~Visible(pic, drawn[j], p)
          <6>1. \A j \in 1..m : j = m \/ j \in 1..(m - 1)
            BY <3>1
          <6> QED BY <4>4, <5>1, <5>2, <6>1 DEF SeenOver
        <5>3. CASE \E i \in 1..(m - 1) :
                      /\ Visible(pic, drawn[i], p) /\ f[m - 1][p] = ColorAt(pic, drawn[i], p)
                      /\ \A j \in (i + 1)..(m - 1) : ~Visible(pic, drawn[j], p)
          <6>1. PICK i \in 1..(m - 1) :
                      /\ Visible(pic, drawn[i], p) /\ f[m - 1][p] = ColorAt(pic, drawn[i], p)
                      /\ \A j \in (i + 1)..(m - 1) : ~Visible(pic, drawn[j], p)
            BY <5>3
          <6>2. i \in 1..m /\ \A j \in (i + 1)..m : j = m \/ j \in (i + 1)..(m - 1)
            BY <3>1, <6>1
          <6>3. \A j \in (i + 1)..m : ~Visible(pic, drawn[j], p)
            BY <4>4, <6>1, <6>2
          <6> QED BY <4>4, <5>1, <6>1, <6>2, <6>3 DEF SeenOver
        <5> QED BY <4>1, <4>4, <5>2, <5>3 DEF SeenOver
      <4> QED BY <4>2, <4>3, <4>4
    <3> QED BY <2>2, <3>3, <3>4
  <2> QED BY <2>3, <2>4
<1> QED BY <1>1, <1>2

\* The layer number k of the stack is the frontmost that is visible at p.
Frontmost(pic, stack, p, k) ==
    /\ k \in 1..Len(stack) /\ Visible(pic, stack[k], p)
    /\ \A j \in 1..Len(stack) : k < j => ~Visible(pic, stack[j], p)

\* The stack has the colour at p.
IsSeen(pic, stack, p, color) ==
    \E k \in 1..Len(stack) : Frontmost(pic, stack, p, k) /\ color = ColorAt(pic, stack[k], p)

\* Something of the stack is visible at every point of the buffer.
Backed(pic, stack, extent) ==
    \A p \in Points(extent) : \E k \in 1..Len(stack) : Visible(pic, stack[k], p)

\* The image shows the stack.
ShowsStack(pic, stack, extent, image) ==
    \A p \in Points(extent) : IsSeen(pic, stack, p, image[p])

\* Drawing the whole stack shows it.
LEMMA WholeDrawn ==
    ASSUME NEW pic, IsPicture(pic), NEW stack \in Seq(Layers), NEW extent \in Nat \X Nat,
           NEW dst \in Images(extent), Backed(pic, stack, extent),
           NEW r, r = draw_to(pic, stack, dst, extent)
    PROVE  r \in Images(extent) /\ ShowsStack(pic, stack, extent, r)
<1> DEFINE n == Len(stack)
           G(g) == [k \in 0..n |-> IF k = 0 THEN dst ELSE draw_layer_to(pic, stack[k], g[k - 1], extent)]
           f == CHOOSE g : g = G(g)
           rect == [left |-> 0, top |-> 0, right |-> extent[1], bottom |-> extent[2]]
<1>0. n \in Nat /\ \A k \in 1..n : stack[k] \in Layers
  BY LenProperties, ElementOfSeq
<1>1. \E g : g = G(g)
  <2>1. \E g : WholeImages(g, pic, stack, n, dst, extent)
    BY <1>0, WholeImagesExist
  <2> QED BY <2>1 DEF WholeImages
<1>2. f = G(f)
  BY <1>1
<1>3. r = f[n]
  BY DEF draw_to
<1>4. \A p \in Points(extent) : includes_point(rect, p)
  BY DEF Points, includes_point
<1> HIDE DEF n, f, rect
<1>5. f[0] = dst /\ \A k \in 1..n : f[k] = draw_layer_to(pic, stack[k], f[k - 1], extent)
  <2>1. 0 \in 0..n /\ \A k \in 1..n : k \in 0..n /\ k # 0
    BY <1>0
  <2> QED BY <1>2, <2>1
<1>6. \A k \in 1..n : Over(pic, stack[k], rect, extent, f[k - 1], f[k])
  BY <1>0, <1>4, <1>5, DrawnWhole
<1>7. /\ f[n] \in Images(extent)
      /\ \A p \in Points(extent) : SeenOver(pic, stack, n, rect, p, f[0][p], f[n][p])
  BY <1>0, <1>5, <1>6, Layered
<1>8. ASSUME NEW p \in Points(extent) PROVE IsSeen(pic, stack, p, r[p])
  <2>1. SeenOver(pic, stack, n, rect, p, f[0][p], r[p]) /\ includes_point(rect, p)
    BY <1>3, <1>4, <1>7
  <2>2. \E k \in 1..n : Visible(pic, stack[k], p)
    BY DEF Backed, n
  <2>3. PICK i \in 1..n : /\ Visible(pic, stack[i], p) /\ r[p] = ColorAt(pic, stack[i], p)
                          /\ \A j \in (i + 1)..n : ~Visible(pic, stack[j], p)
    BY <2>1, <2>2 DEF SeenOver
  <2>4. \A j \in 1..n : i < j => j \in (i + 1)..n
    BY <1>0
  <2>5. Frontmost(pic, stack, p, i)
    BY <2>3, <2>4 DEF Frontmost, n
  <2> QED BY <2>3, <2>5 DEF IsSeen, n
<1> QED BY <1>3, <1>7, <1>8 DEF ShowsStack

\* The search of draw_damage_to ends at the frontmost cover, or else at the backmost layer.
LEMMA FirstDrawnIs ==
    ASSUME NEW pic, NEW stack \in Seq(Layers), stack # <<>>, NEW rect,
           NEW first, first = FirstDrawn(pic, stack, rect)
    PROVE  /\ first \in 1..Len(stack)
           /\ first = 1 \/ first \in Covers(pic, stack, rect)
<1>0. Len(stack) \in Nat \ {0} /\ DOMAIN stack = 1..Len(stack)
  BY LenProperties, EmptySeq
<1> DEFINE covers == Covers(pic, stack, rect)
           T == {m \in Nat : Len(stack) - m \in covers}
<1>1. covers \subseteq 1..Len(stack)
  BY <1>0 DEF Covers
<1>2. CASE covers = {}
  BY <1>0, <1>2 DEF FirstDrawn
<1>3. CASE covers # {}
  <2> HIDE DEF covers
  <2>0. \A k \in covers : k \in Int /\ Len(stack) - k \in Nat /\ Len(stack) - (Len(stack) - k) = k
    BY <1>0, <1>1
  <2>1. T \in SUBSET Nat /\ T # {}
    BY <1>3, <2>0
  <2>2. PICK m \in T : \A x \in T : m <= x
    <3> HIDE DEF T
    <3> QED BY <2>1, LeastNumber
  <2>3. PICK k \in covers : k = Len(stack) - m
    BY <2>2
  <2>4. \A j \in covers : j <= k
    <3> SUFFICES ASSUME NEW j \in covers PROVE j <= k
      OBVIOUS
    <3>1. m <= Len(stack) - j
      BY <2>0, <2>2
    <3>2. j \in Int /\ m \in Int
      BY <2>0, <2>2
    <3> QED BY <1>0, <2>3, <3>1, <3>2
  <2>5. first = CHOOSE i \in covers : \A j \in covers : j <= i
    BY <1>3 DEF FirstDrawn, covers
  <2>6. first \in covers
    BY <2>4, <2>5
  <2> QED BY <1>1, <2>6 DEF covers
<1> QED BY <1>2, <1>3

\* A cover is visible at all points of the rectangle.
LEMMA CoverVisible ==
    ASSUME NEW pic, IsPicture(pic), NEW stack \in Seq(Layers), NEW rect \in Rects,
           NEW k \in Covers(pic, stack, rect), NEW p \in Int \X Int, includes_point(rect, p)
    PROVE  Visible(pic, stack[k], p)
<1>1. k \in 1..Len(stack) /\ stack[k] \in Layers
  BY LenProperties, ElementOfSeq DEF Covers
<1>2. ~has_transparency(stack[k]) /\ includes(manager_area(pic, stack[k]), rect)
  BY DEF Covers
<1>3. manager_area(pic, stack[k]) \in Rects
  BY <1>1, AreaPoints
<1>4. includes_point(manager_area(pic, stack[k]), p)
  BY <1>2, <1>3 DEF includes, includes_point, Rects
<1>5. ColorAt(pic, stack[k], p) \in Colors
  BY <1>1, <1>4, AreaPoints
<1>6. "none" \notin Colors /\ TransparentColor(stack[k]) = "none"
  BY <1>2 DEF Colors, has_transparency
<1> QED BY <1>4, <1>5, <1>6 DEF Visible

\* What draw_damage_to does to a buffer: a point is redrawn, or it lies outside of the
\* rectangle, or the layer lies behind another one there.
Redrawn(pic, stack, extent, dst, id, rect, r) ==
    /\ r \in Images(extent)
    /\ \A p \in Points(extent) :
          \/ includes_point(rect, p) /\ IsSeen(pic, stack, p, r[p])
          \/ r[p] = dst[p] /\ ~includes_point(rect, p)
          \/ /\ r[p] = dst[p]
             /\ \E k \in 1..Len(stack) : /\ Visible(pic, stack[k], p)
                                         /\ \A j \in k..Len(stack) : stack[j] # id

\* draw_damage_to redraws a buffer from the frontmost layer that covers the rectangle.
LEMMA DamageDrawn ==
    ASSUME NEW pic, IsPicture(pic), NEW stack \in Seq(Layers), stack # <<>>,
           NEW extent \in Nat \X Nat, NEW dst \in Images(extent), NEW id, NEW rect \in Rects,
           Backed(pic, stack, extent)
    PROVE  Redrawn(pic, stack, extent, dst, id, rect,
                   draw_damage_to(pic, stack, dst, extent, id, rect))
<1>1. PICK first : first = FirstDrawn(pic, stack, rect)
  OBVIOUS
<1>2. PICK N : N = Len(stack)
  OBVIOUS
<1>3. N \in Nat \ {0} /\ \A k \in 1..N : stack[k] \in Layers
  BY <1>2, LenProperties, EmptySeq, ElementOfSeq
<1>4. first \in 1..N /\ (first = 1 \/ first \in Covers(pic, stack, rect))
  BY <1>1, <1>2, FirstDrawnIs
<1>5. PICK drawn : drawn = SubSeq(stack, first, N)
  OBVIOUS
<1>6. PICK n : n = N - first + 1
  OBVIOUS
<1>7. /\ n \in Nat \ {0} /\ Len(drawn) = n
      /\ \A k \in 1..n : drawn[k] = stack[first + k - 1] /\ first + k - 1 \in first..N
  <2>1. n \in Nat \ {0} /\ first <= N + 1 /\ first \in 1..(N + 1)
    BY <1>3, <1>4, <1>6
  <2>2. Len(drawn) = n /\ \A k \in 1..n : drawn[k] = stack[first + k - 1]
    BY <1>2, <1>3, <1>4, <1>5, <1>6, <2>1, SubSeqProperties
  <2>3. \A k \in 1..n : first + k - 1 \in first..N
    BY <1>3, <1>4, <1>6
  <2> QED BY <2>1, <2>2, <2>3
<1> DEFINE G(g) == [k \in 0..n |-> IF k = 0 THEN dst
                                   ELSE draw_damaged_layer_to(pic, drawn[k], g[k - 1], extent, rect)]
           f == CHOOSE g : g = G(g)
           r == draw_damage_to(pic, stack, dst, extent, id, rect)
<1>8. f = G(f)
  <2>1. \E g : DamageImages(g, pic, drawn, n, dst, extent, rect)
    BY <1>7, DamageImagesExist
  <2>2. \E g : g = G(g)
    BY <2>1 DEF DamageImages
  <2> QED BY <2>2
<1>9. r = IF Contains(drawn, id) THEN f[n] ELSE dst
  BY <1>1, <1>2, <1>5, <1>7 DEF draw_damage_to
<1> HIDE DEF f, r
<1>10. f[0] = dst /\ \A k \in 1..n : f[k] = draw_damaged_layer_to(pic, drawn[k], f[k - 1], extent, rect)
  <2>1. 0 \in 0..n /\ \A k \in 1..n : k \in 0..n /\ k # 0
    BY <1>7
  <2> QED BY <1>8, <2>1
<1>11. \A k \in 1..n : drawn[k] \in Layers
  <2>1. \A k \in first..N : k \in 1..N
    BY <1>3, <1>4
  <2> QED BY <1>3, <1>7, <2>1
<1>12. \A k \in 1..n : Over(pic, drawn[k], rect, extent, f[k - 1], f[k])
  BY <1>10, <1>11, DrawnDamaged
<1>13. /\ f[n] \in Images(extent)
       /\ \A p \in Points(extent) : SeenOver(pic, drawn, n, rect, p, dst[p], f[n][p])
  BY <1>7, <1>10, <1>12, Layered
<1>14. ASSUME NEW p \in Points(extent), includes_point(rect, p)
       PROVE  \E k \in first..N : Visible(pic, stack[k], p)
  <2>1. p \in Int \X Int
    BY DEF Points
  <2>2. CASE first = 1
    BY <1>2, <2>2 DEF Backed
  <2>3. CASE first \in Covers(pic, stack, rect)
    <3>1. first \in first..N
      BY <1>3, <1>4
    <3> QED BY <1>14, <2>1, <2>3, <3>1, CoverVisible
  <2> QED BY <1>4, <2>2, <2>3
<1>15. CASE Contains(drawn, id)
  <2>1. r = f[n]
    BY <1>9, <1>15
  <2>2. ASSUME NEW p \in Points(extent), includes_point(rect, p) PROVE IsSeen(pic, stack, p, r[p])
    <3>1. PICK k \in first..N : Visible(pic, stack[k], p)
      BY <1>14, <2>2
    <3>2. k - first + 1 \in 1..n /\ drawn[k - first + 1] = stack[k]
      <4>1. k - first + 1 \in 1..n /\ first + (k - first + 1) - 1 = k
        BY <1>3, <1>4, <1>6
      <4> QED BY <1>7, <4>1
    <3>3. PICK i \in 1..n : /\ Visible(pic, drawn[i], p) /\ r[p] = ColorAt(pic, drawn[i], p)
                            /\ \A j \in (i + 1)..n : ~Visible(pic, drawn[j], p)
      BY <1>13, <2>1, <2>2, <3>1, <3>2 DEF SeenOver
    <3>4. PICK m : m = first + i - 1
      OBVIOUS
    <3>5. m \in 1..N /\ drawn[i] = stack[m]
      BY SMTT(30), <1>3, <1>4, <1>7, <3>4
    <3>6. ASSUME NEW j \in 1..N, m < j PROVE ~Visible(pic, stack[j], p)
      <4>1. j - first + 1 \in (i + 1)..n /\ j - first + 1 \in 1..n /\ first + (j - first + 1) - 1 = j
        BY <1>3, <1>4, <1>6, <3>4, <3>6
      <4>2. drawn[j - first + 1] = stack[j]
        BY <1>7, <4>1
      <4> QED BY <3>3, <4>1, <4>2
    <3>7. Frontmost(pic, stack, p, m)
      BY <1>2, <3>3, <3>5, <3>6 DEF Frontmost
    <3> QED BY <1>2, <3>3, <3>5, <3>7 DEF IsSeen
  <2>3. ASSUME NEW p \in Points(extent), ~includes_point(rect, p) PROVE r[p] = dst[p]
    BY <1>13, <2>1, <2>3 DEF SeenOver
  <2> QED BY <1>13, <2>1, <2>2, <2>3 DEF Redrawn, r
<1>16. CASE ~Contains(drawn, id)
  <2>1. r = dst
    BY <1>9, <1>16
  <2>2. \A j \in first..N : stack[j] # id
    <3> SUFFICES ASSUME NEW j \in first..N PROVE stack[j] # id
      OBVIOUS
    <3>1. j - first + 1 \in 1..n /\ first + (j - first + 1) - 1 = j
      BY <1>3, <1>4, <1>6
    <3>2. drawn[j - first + 1] = stack[j]
      BY <1>7, <3>1
    <3> QED BY <1>7, <1>16, <3>1, <3>2 DEF Contains
  <2>3. ASSUME NEW p \in Points(extent), includes_point(rect, p)
        PROVE  \E k \in 1..N : /\ Visible(pic, stack[k], p)
                               /\ \A j \in k..N : stack[j] # id
    <3>1. PICK k \in first..N : Visible(pic, stack[k], p)
      BY <1>14, <2>3
    <3>2. k \in 1..N /\ \A j \in k..N : j \in first..N
      BY <1>3, <1>4
    <3> QED BY <2>2, <3>1, <3>2
  <2> QED BY <1>2, <2>1, <2>3 DEF Redrawn, r
<1> QED BY <1>15, <1>16

-----------------------------------------------------------------------------
(* Layers: a buffer that shows the stack goes on showing it                  *)

\* The layer looks the same at p in both pictures.
SameAt(old, new, l, p) ==
    /\ Visible(old, l, p) <=> Visible(new, l, p)
    /\ Visible(new, l, p) => ColorAt(old, l, p) = ColorAt(new, l, p)

\* Of the stack only the layer id looks different, and only within rect.
ChangedIn(old, new, stack, extent, id, rect) ==
    \A k \in 1..Len(stack), p \in Points(extent) :
        stack[k] # id \/ ~includes_point(rect, p) => SameAt(old, new, stack[k], p)

\* What is seen at a point stays the same if the layers look the same there, or those
\* that are not behind a visible one.
LEMMA SeenSame ==
    ASSUME NEW old, NEW new, NEW stack \in Seq(Layers), NEW p, NEW color,
           IsSeen(old, stack, p, color), NEW m \in 1..Len(stack),
           m = 1 \/ Visible(new, stack[m], p),
           \A j \in m..Len(stack) : SameAt(old, new, stack[j], p)
    PROVE  IsSeen(new, stack, p, color)
<1>0. Len(stack) \in Nat
  BY LenProperties
<1>1. PICK k \in 1..Len(stack) : Frontmost(old, stack, p, k) /\ color = ColorAt(old, stack[k], p)
  BY DEF IsSeen
<1>2. Visible(old, stack[k], p) /\ \A j \in 1..Len(stack) : k < j => ~Visible(old, stack[j], p)
  BY <1>1 DEF Frontmost
<1>3. k \in m..Len(stack)
  <2>1. CASE m = 1
    BY <2>1, <1>1
  <2>2. CASE Visible(new, stack[m], p)
    <3>1. m \in m..Len(stack)
      BY <1>0
    <3>2. Visible(old, stack[m], p)
      BY <2>2, <3>1 DEF SameAt
    <3>3. ~(k < m)
      BY <1>2, <3>2
    <3> QED BY <1>0, <1>1, <3>3
  <2> QED BY <2>1, <2>2
<1>4. Visible(new, stack[k], p) /\ color = ColorAt(new, stack[k], p)
  BY <1>1, <1>2, <1>3 DEF SameAt
<1>5. \A j \in 1..Len(stack) : k < j => ~Visible(new, stack[j], p)
  <2> SUFFICES ASSUME NEW j \in 1..Len(stack), k < j PROVE ~Visible(new, stack[j], p)
    OBVIOUS
  <2>1. j \in m..Len(stack)
    BY <1>0, <1>3
  <2> QED BY <1>2, <2>1 DEF SameAt
<1> QED BY <1>1, <1>4, <1>5 DEF IsSeen, Frontmost

\* A redraw brings the buffer up to date with the change of one layer.
LEMMA RedrawnShows ==
    ASSUME NEW old, NEW new, NEW stack \in Seq(Layers), NEW extent, NEW dst, NEW id, NEW rect,
           ShowsStack(old, stack, extent, dst), ChangedIn(old, new, stack, extent, id, rect),
           NEW r, Redrawn(new, stack, extent, dst, id, rect, r)
    PROVE  ShowsStack(new, stack, extent, r)
<1> SUFFICES ASSUME NEW p \in Points(extent) PROVE IsSeen(new, stack, p, r[p])
  BY DEF ShowsStack
<1>0. Len(stack) \in Nat
  BY LenProperties
<1>1. IsSeen(old, stack, p, dst[p])
  BY DEF ShowsStack
<1>2. CASE includes_point(rect, p) /\ IsSeen(new, stack, p, r[p])
  BY <1>2
<1>3. CASE r[p] = dst[p] /\ ~includes_point(rect, p)
  <2>1. 1 \in 1..Len(stack)
    BY <1>0, <1>1 DEF IsSeen
  <2>2. \A j \in 1..Len(stack) : SameAt(old, new, stack[j], p)
    BY <1>3 DEF ChangedIn
  <2>3. IsSeen(new, stack, p, dst[p])
    BY <1>1, <2>1, <2>2, SeenSame
  <2> QED BY <1>3, <2>3
<1>4. CASE /\ r[p] = dst[p]
           /\ \E k \in 1..Len(stack) : /\ Visible(new, stack[k], p)
                                       /\ \A j \in k..Len(stack) : stack[j] # id
  <2>1. PICK k \in 1..Len(stack) : /\ Visible(new, stack[k], p)
                                   /\ \A j \in k..Len(stack) : stack[j] # id
    BY <1>4
  <2>2. \A j \in k..Len(stack) : SameAt(old, new, stack[j], p)
    <3> SUFFICES ASSUME NEW j \in k..Len(stack) PROVE SameAt(old, new, stack[j], p)
      OBVIOUS
    <3>1. j \in 1..Len(stack)
      BY <1>0
    <3> QED BY <2>1, <3>1 DEF ChangedIn
  <2>3. IsSeen(new, stack, p, dst[p])
    BY <1>1, <2>1, <2>2, SeenSame
  <2> QED BY <1>4, <2>3
<1> QED BY <1>2, <1>3, <1>4 DEF Redrawn

\* A buffer shows the stack as long as its layers look the same.
LEMMA ShowsSame ==
    ASSUME NEW old, NEW new, NEW stack \in Seq(Layers), NEW extent, NEW dst,
           ShowsStack(old, stack, extent, dst),
           \A k \in 1..Len(stack), p \in Points(extent) : SameAt(old, new, stack[k], p)
    PROVE  ShowsStack(new, stack, extent, dst)
<1> SUFFICES ASSUME NEW p \in Points(extent) PROVE IsSeen(new, stack, p, dst[p])
  BY DEF ShowsStack
<1>1. IsSeen(old, stack, p, dst[p])
  BY DEF ShowsStack
<1>2. 1 \in 1..Len(stack)
  BY <1>1, LenProperties DEF IsSeen
<1> QED BY <1>1, <1>2, SeenSame

\* A layer with the same position and content looks the same.
LEMMA SameLayer ==
    ASSUME NEW old, NEW new, NEW l, old.pos[l] = new.pos[l], old.contents[l] = new.contents[l]
    PROVE  \A p : SameAt(old, new, l, p)
  BY DEF SameAt, Visible, ColorAt, manager_area

\* An opaque layer that is as large as its buffer is visible everywhere.
LEMMA OpaqueVisible ==
    ASSUME NEW pic, IsPicture(pic), NEW l \in Layers, TransparentColor(l) = "none",
           pic.pos[l] = <<0, 0>>, NEW p \in Points(LayerSizes[l])
    PROVE  Visible(pic, l, p)
<1>1. p \in Int \X Int /\ Subtract(p, pic.pos[l]) = p
  BY DEF Points, Subtract
<1>2. includes_point(manager_area(pic, l), p) /\ ColorAt(pic, l, p) \in Colors
  BY <1>1, AreaPoints
<1>3. "none" \notin Colors
  BY DEF Colors
<1> QED BY <1>2, <1>3 DEF Visible

\* merge_rects of one rectangle and of two: no operation damages more at a time.
LEMMA MergedRects ==
    ASSUME NEW rects \in Seq(Rects)
    PROVE  /\ Len(rects) = 1 => merge_rects(rects) = rects[1]
           /\ Len(rects) = 2 => merge_rects(rects) = merge(rects[1], rects[2])
<1> DEFINE G(f) == [k \in DOMAIN rects |-> IF k = 1 THEN rects[1] ELSE merge(f[k - 1], rects[k])]
           F == CHOOSE f : f = G(f)
<1>1. merge_rects(rects) = F[Len(rects)] /\ DOMAIN rects = 1..Len(rects)
  BY LenProperties DEF merge_rects
<1>2. CASE Len(rects) = 1
  <2> DEFINE g == [k \in 1..1 |-> rects[1]]
  <2>1. g = G(g)
    BY <1>1, <1>2
  <2>2. F = G(F)
    BY <2>1
  <2> HIDE DEF F
  <2>3. F[1] = rects[1]
    <3>1. 1 \in DOMAIN rects
      BY <1>1, <1>2
    <3> QED BY <2>2, <3>1
  <2> QED BY <1>1, <1>2, <2>3
<1>3. CASE Len(rects) = 2
  <2> DEFINE g == [k \in 1..2 |-> IF k = 1 THEN rects[1] ELSE merge(rects[1], rects[2])]
  <2>1. g = G(g)
    <3>1. g[1] = rects[1] /\ g[2] = merge(rects[1], rects[2])
      OBVIOUS
    <3>2. \A k \in 1..2 : g[k] = IF k = 1 THEN rects[1] ELSE merge(g[k - 1], rects[k])
      <4> HIDE DEF g
      <4> QED BY <3>1
    <3> QED BY <1>1, <1>3, <3>2
  <2>2. F = G(F)
    BY <2>1
  <2> HIDE DEF F
  <2>3. F[1] = rects[1] /\ F[2] = merge(F[1], rects[2])
    BY <1>1, <1>3, <2>2
  <2> QED BY <1>1, <1>3, <2>3
<1> QED BY <1>2, <1>3

\* A merged rectangle holds the points of both.
LEMMA MergeIncludes ==
    ASSUME NEW r \in Rects, NEW s \in Rects, NEW p \in Int \X Int
    PROVE  /\ merge(r, s) \in Rects
           /\ includes_point(r, p) \/ includes_point(s, p) => includes_point(merge(r, s), p)
  BY DEF Rects, merge, includes_point, RectOf, VectorMin, VectorMax, min, max, top_left, bottom_right

\* A point lies in an offset rectangle if it comes from a point of the original one.
LEMMA OffsetIncludes ==
    ASSUME NEW r \in Rects, NEW d \in Int \X Int, NEW p \in Int \X Int
    PROVE  /\ offset(r, d) \in Rects
           /\ includes_point(offset(r, d), p) <=> includes_point(r, Subtract(p, d))
  BY SMTT(30) DEF Rects, offset, includes_point, RectOf, Add, Subtract, top_left, bottom_right

\* It does not matter whether rectangles are merged or offset first.
LEMMA MergeOffset ==
    ASSUME NEW r \in Rects, NEW s \in Rects, NEW d \in Int \X Int
    PROVE  merge(offset(r, d), offset(s, d)) = offset(merge(r, s), d)
<1>1. d[1] \in Int /\ d[2] \in Int
  OBVIOUS
<1>2. /\ r.left \in Int /\ r.top \in Int /\ r.right \in Int /\ r.bottom \in Int
      /\ s.left \in Int /\ s.top \in Int /\ s.right \in Int /\ s.bottom \in Int
  BY DEF Rects
<1>3. /\ min(r.left + d[1], s.left + d[1]) = min(r.left, s.left) + d[1]
      /\ min(r.top + d[2], s.top + d[2]) = min(r.top, s.top) + d[2]
      /\ max(r.right + d[1], s.right + d[1]) = max(r.right, s.right) + d[1]
      /\ max(r.bottom + d[2], s.bottom + d[2]) = max(r.bottom, s.bottom) + d[2]
  BY <1>1, <1>2 DEF min, max
<1> QED
  BY <1>3 DEF offset, merge, RectOf, Add, top_left, bottom_right, VectorMin, VectorMax

\* A picture that has been brought up to date: nothing has changed but the two buffers,
\* which are the same and show the stack.
Shown(pic, stack, r) ==
    /\ IsPicture(r) /\ r.stack = pic.stack /\ r.pos = pic.pos /\ r.contents = pic.contents
    /\ r.back = r.screen /\ r.back \in Images(screen_size)
    /\ ShowsStack(r, stack, screen_size, r.back)

\* DoubleBufferedLayerManager::damage brings the screen up to date.
LEMMA ScreenDamaged ==
    ASSUME has_buffer, NEW old, NEW pic, IsPicture(pic),
           pic.back = pic.screen, pic.back \in Images(screen_size),
           NEW stack \in Seq(Layers), stack # <<>>, stack = pic.stack["screen"],
           Backed(pic, stack, screen_size), ShowsStack(old, stack, screen_size, pic.back),
           NEW id, NEW rects, rects # <<>>, NEW rect \in Rects, rect = merge_rects(rects),
           ChangedIn(old, pic, stack, screen_size, id, rect)
    PROVE  Shown(pic, stack, screen_damage(pic, id, rects))
<1>0. screen_size \in Nat \X Nat
  BY SizesAssumption
<1>1. PICK back : back = draw_damage_to(pic, stack, pic.back, screen_size, id, rect)
  OBVIOUS
<1>2. Redrawn(pic, stack, screen_size, pic.back, id, rect, back)
  BY <1>0, <1>1, DamageDrawn
<1>3. ShowsStack(pic, stack, screen_size, back)
  BY <1>2, RedrawnShows
<1>4. PICK front : front = copy_from(pic.screen, screen_size, back, screen_size, top_left(rect),
                                     top_left(rect), size(rect), "none")
  OBVIOUS
<1>5. back \in Images(screen_size)
  BY <1>2 DEF Redrawn
<1>6. top_left(rect) \in Int \X Int /\ size(rect) \in Int \X Int
  BY DEF Rects, top_left, size, bottom_right, Subtract
<1>7. DOMAIN pic.screen = Points(screen_size)
  BY DEF Images
<1>8. Copied(pic.screen, screen_size, back, screen_size, top_left(rect), top_left(rect),
             size(rect), "none", front)
  BY <1>0, <1>4, <1>6, <1>7, CopyAt, Zenon
<1>9. ASSUME NEW p \in Points(screen_size) PROVE front[p] = back[p]
  <2>1. p \in Int \X Int
    BY <1>0 DEF Points
  <2>2. SourceOf(top_left(rect), top_left(rect), p) = p
    BY <1>6, <2>1 DEF SourceOf
  <2>3. back[p] \in Colors /\ "none" \notin Colors
    BY <1>5 DEF Images, Colors
  <2>4. Within(top_left(rect), size(rect), p) <=> includes_point(rect, p)
    BY <2>1 DEF Within, top_left, size, bottom_right, Subtract, includes_point, Rects
  <2>5. front[p] = IF includes_point(rect, p) THEN back[p] ELSE pic.screen[p]
    BY <1>8, <2>2, <2>3, <2>4 DEF Copied
  <2>6. ~includes_point(rect, p) => back[p] = pic.back[p]
    BY <1>2 DEF Redrawn
  <2> QED BY <2>5, <2>6
<1>10. front = back
  <2>1. front = [p \in Points(screen_size) |-> front[p]]
    BY <1>8 DEF Copied
  <2>2. back = [p \in Points(screen_size) |-> back[p]]
    BY <1>5 DEF Images
  <2> QED BY <1>9, <2>1, <2>2
<1>11. screen_damage(pic, id, rects) = [pic EXCEPT !.back = back, !.screen = front]
  BY <1>1, <1>4 DEF screen_damage
<1>12. PICK r : r = screen_damage(pic, id, rects)
  OBVIOUS
<1>13. r = [stack |-> pic.stack, pos |-> pic.pos, contents |-> pic.contents,
            back |-> back, screen |-> front]
  BY <1>11, <1>12 DEF IsPicture
<1>14. IsPicture(r)
  BY <1>13 DEF IsPicture
<1>15. \A k \in 1..Len(stack), p \in Points(screen_size) : SameAt(pic, r, stack[k], p)
  BY <1>13, SameLayer
<1>16. ShowsStack(r, stack, screen_size, back)
  BY <1>3, <1>15, ShowsSame
<1> QED BY <1>5, <1>10, <1>12, <1>13, <1>14, <1>16 DEF Shown

-----------------------------------------------------------------------------
(* Layers: the operations of the main loop                                  *)

\* The stack of the screen once initialize_graphics has shown all layers
ScreenStack == <<"bg", "console", "group", "main_window", "mouse">>
\* The stack of the group
GroupStack == <<"group_bg", "test">>

\* The layers of the two stacks, one by one
LEMMA Stacks ==
    /\ ScreenStack \in Seq(Layers) /\ ScreenStack # <<>> /\ Len(ScreenStack) = 5
    /\ ScreenStack[1] = "bg" /\ ScreenStack[2] = "console" /\ ScreenStack[3] = "group"
    /\ ScreenStack[4] = "main_window" /\ ScreenStack[5] = "mouse"
    /\ GroupStack \in Seq(Layers) /\ GroupStack # <<>> /\ Len(GroupStack) = 2
    /\ GroupStack[1] = "group_bg" /\ GroupStack[2] = "test"
  BY DEF ScreenStack, GroupStack, Layers

\* What holds of a picture between two operations
Composed(pic) ==
    /\ IsPicture(pic) /\ pic.pos["bg"] = <<0, 0>> /\ pic.pos["group_bg"] = <<0, 0>>
    /\ pic.stack["screen"] = ScreenStack /\ pic.stack["group"] = GroupStack
    /\ pic.back = pic.screen /\ pic.back \in Images(screen_size)
    /\ ShowsStack(pic, ScreenStack, screen_size, pic.back)
    /\ ShowsStack(pic, GroupStack, LayerSizes["group"], pic.contents["group"])

\* The two backgrounds are visible everywhere.
LEMMA StacksBacked ==
    ASSUME NEW pic, IsPicture(pic), pic.pos["bg"] = <<0, 0>>, pic.pos["group_bg"] = <<0, 0>>
    PROVE  Backed(pic, ScreenStack, screen_size) /\ Backed(pic, GroupStack, LayerSizes["group"])
<1>1. "bg" \in Layers /\ "group_bg" \in Layers
  BY DEF Layers
<1>2. TransparentColor("bg") = "none" /\ TransparentColor("group_bg") = "none"
  BY DEF TransparentColor
<1>3. LayerSizes["bg"] = screen_size /\ LayerSizes["group_bg"] = LayerSizes["group"]
  BY SizesAssumption
<1>4. \A p \in Points(screen_size) : Visible(pic, "bg", p)
  BY <1>1, <1>2, <1>3, OpaqueVisible
<1>5. \A p \in Points(LayerSizes["group"]) : Visible(pic, "group_bg", p)
  BY <1>1, <1>2, <1>3, OpaqueVisible
<1> QED BY <1>4, <1>5, Stacks DEF Backed

\* The layer id of the screen has been changed within rect and is to be drawn again.
Changed(old, pic, id, rect) ==
    /\ IsPicture(pic) /\ pic.stack = old.stack /\ pic.back = old.back /\ pic.screen = old.screen
    /\ pic.pos["bg"] = <<0, 0>> /\ pic.pos["group_bg"] = <<0, 0>>
    /\ ShowsStack(pic, GroupStack, LayerSizes["group"], pic.contents["group"])
    /\ rect \in Rects /\ ChangedIn(old, pic, ScreenStack, screen_size, id, rect)

\* The damage of that layer brings the screen up to date.
LEMMA ScreenUpdated ==
    ASSUME has_buffer, NEW old, Composed(old), NEW pic, NEW id, NEW rects, rects # <<>>,
           Changed(old, pic, id, merge_rects(rects)), NEW r, r = screen_damage(pic, id, rects)
    PROVE  Composed(r) /\ r.pos = pic.pos /\ r.stack = pic.stack
<1>0. PICK rect : rect = merge_rects(rects)
  OBVIOUS
<1>1. IsPicture(pic) /\ Backed(pic, ScreenStack, screen_size)
  BY StacksBacked DEF Changed
<1>2. /\ pic.back = pic.screen /\ pic.back \in Images(screen_size)
      /\ ScreenStack = pic.stack["screen"] /\ ShowsStack(old, ScreenStack, screen_size, pic.back)
      /\ rect \in Rects /\ ChangedIn(old, pic, ScreenStack, screen_size, id, rect)
  BY <1>0 DEF Composed, Changed
<1>3. Shown(pic, ScreenStack, r)
  BY <1>0, <1>1, <1>2, Stacks, ScreenDamaged
<1>4. \A k \in 1..Len(GroupStack), p \in Points(LayerSizes["group"]) : SameAt(pic, r, GroupStack[k], p)
  BY <1>3, SameLayer DEF Shown
<1>5. ShowsStack(r, GroupStack, LayerSizes["group"], r.contents["group"])
  BY <1>3, <1>4, ShowsSame, Stacks DEF Shown, Changed
<1> QED BY <1>3, <1>5 DEF Composed, Shown, Changed

\* Moving a layer of the screen
LEMMA MovedOnScreen ==
    ASSUME has_buffer, NEW pic, Composed(pic), NEW l \in {"mouse", "main_window"},
           NEW q \in Int \X Int, NEW r, r = Moved(pic, l, q)
    PROVE  Composed(r) /\ r.pos = [pic.pos EXCEPT ![l] = q] /\ r.stack = pic.stack
<1>0. IsPicture(pic) /\ l \in Layers
  BY DEF Composed, Layers
<1>1. PICK after : after = [pic EXCEPT !.pos[l] = q]
  OBVIOUS
<1>2. after = [stack |-> pic.stack, pos |-> [pic.pos EXCEPT ![l] = q], contents |-> pic.contents,
               back |-> pic.back, screen |-> pic.screen]
  BY <1>0, <1>1 DEF IsPicture
<1>3. IsPicture(after)
  BY <1>0, <1>2 DEF IsPicture
<1>4. PICK a : a = manager_area(pic, l)
  OBVIOUS
<1>5. PICK b : b = manager_area(after, l)
  OBVIOUS
<1>6. a \in Rects /\ b \in Rects
  <2>1. <<0, 0>> \in Int \X Int
    OBVIOUS
  <2> QED BY <1>0, <1>3, <1>4, <1>5, <2>1, AreaPoints
<1>7. PICK rects : rects = <<a, b>>
  OBVIOUS
<1>8. rects \in Seq(Rects) /\ Len(rects) = 2 /\ rects[1] = a /\ rects[2] = b /\ rects # <<>>
  BY <1>6, <1>7
<1>9. merge_rects(rects) = merge(a, b) /\ merge(a, b) \in Rects
  <2>1. <<0, 0>> \in Int \X Int
    OBVIOUS
  <2> QED BY <1>6, <1>8, <2>1, MergedRects, MergeIncludes
<1>10. r = screen_damage(after, l, rects)
  BY <1>1, <1>4, <1>5, <1>7 DEF Moved, manager_damage, ManagerOf
<1>11. ASSUME NEW m \in Layers, m # l, NEW p PROVE SameAt(pic, after, m, p)
  <2>1. pic.pos[m] = after.pos[m] /\ pic.contents[m] = after.contents[m]
    BY <1>0, <1>2, <1>11 DEF IsPicture
  <2> QED BY <2>1, SameLayer
<1>12. ChangedIn(pic, after, ScreenStack, screen_size, l, merge(a, b))
  <2> SUFFICES ASSUME NEW k \in 1..Len(ScreenStack), NEW p \in Points(screen_size),
                      ScreenStack[k] # l \/ ~includes_point(merge(a, b), p)
               PROVE  SameAt(pic, after, ScreenStack[k], p)
    BY DEF ChangedIn
  <2>1. ScreenStack[k] \in Layers
    BY Stacks, ElementOfSeq
  <2>2. CASE ScreenStack[k] # l
    BY <1>11, <2>1, <2>2
  <2>3. CASE ScreenStack[k] = l /\ ~includes_point(merge(a, b), p)
    <3>1. p \in Int \X Int
      BY SizesAssumption DEF Points
    <3>2. ~includes_point(a, p) /\ ~includes_point(b, p)
      BY <1>6, <2>3, <3>1, MergeIncludes
    <3> QED BY <1>4, <1>5, <2>3, <3>2 DEF SameAt, Visible
  <2> QED BY <2>2, <2>3
<1>13. ShowsStack(after, GroupStack, LayerSizes["group"], after.contents["group"])
  <2>1. \A k \in 1..Len(GroupStack), p \in Points(LayerSizes["group"]) :
           SameAt(pic, after, GroupStack[k], p)
    <3> SUFFICES ASSUME NEW k \in 1..Len(GroupStack), NEW p \in Points(LayerSizes["group"])
                 PROVE  SameAt(pic, after, GroupStack[k], p)
      OBVIOUS
    <3>1. GroupStack[k] \in {"group_bg", "test"}
      BY Stacks
    <3>2. GroupStack[k] \in Layers /\ GroupStack[k] # l
      BY <3>1 DEF Layers
    <3> QED BY <1>11, <3>2
  <2>2. ShowsStack(pic, GroupStack, LayerSizes["group"], pic.contents["group"])
    BY DEF Composed
  <2>3. after.contents["group"] = pic.contents["group"]
    BY <1>2
  <2> QED BY <2>1, <2>2, <2>3, ShowsSame, Stacks
<1>14. after.pos["bg"] = <<0, 0>> /\ after.pos["group_bg"] = <<0, 0>>
  BY <1>0, <1>2 DEF Composed, IsPicture, Layers
<1>15. after.stack = pic.stack /\ after.back = pic.back /\ after.screen = pic.screen
       /\ after.pos = [pic.pos EXCEPT ![l] = q]
  BY <1>2
<1>16. Changed(pic, after, l, merge_rects(rects))
  BY <1>3, <1>9, <1>12, <1>13, <1>14, <1>15 DEF Changed
<1>17. Composed(r) /\ r.pos = after.pos /\ r.stack = after.stack
  BY <1>8, <1>10, <1>16, ScreenUpdated
<1> QED BY <1>15, <1>17

\* Painting a rectangle of a layer changes its points within that rectangle only.
LEMMA PaintedImage ==
    ASSUME NEW extent, NEW image \in Images(extent), NEW rect, NEW color \in Colors,
           NEW r, r = Painted(image, rect, color)
    PROVE  /\ r \in Images(extent)
           /\ \A p \in Points(extent) : ~includes_point(rect, p) => r[p] = image[p]
  BY DEF Painted, Images

\* Painting a rectangle of a layer of the screen
LEMMA PaintedOnScreen ==
    ASSUME has_buffer, NEW pic, Composed(pic), NEW l \in {"console", "main_window"},
           NEW rect \in Rects, NEW color \in Colors, NEW r, r = PaintedLayer(pic, l, rect, color)
    PROVE  Composed(r) /\ r.pos = pic.pos /\ r.stack = pic.stack
<1>0. IsPicture(pic) /\ l \in Layers /\ pic.contents[l] \in Images(LayerSizes[l])
      /\ pic.pos[l] \in Int \X Int
  BY DEF Composed, Layers, IsPicture
<1>1. PICK image : image = Painted(pic.contents[l], rect, color)
  OBVIOUS
<1>2. /\ image \in Images(LayerSizes[l])
      /\ \A p \in Points(LayerSizes[l]) : ~includes_point(rect, p) => image[p] = pic.contents[l][p]
  BY <1>0, <1>1, PaintedImage
<1>3. PICK after : after = [pic EXCEPT !.contents[l] = image]
  OBVIOUS
<1>4. after = [stack |-> pic.stack, pos |-> pic.pos, contents |-> [pic.contents EXCEPT ![l] = image],
               back |-> pic.back, screen |-> pic.screen]
  BY <1>0, <1>3 DEF IsPicture
<1>5. \A m \in Layers : after.contents[m] = IF m = l THEN image ELSE pic.contents[m]
  BY <1>0, <1>4 DEF IsPicture
<1>6. IsPicture(after)
  <2>1. \A m \in Layers : after.contents[m] \in Images(LayerSizes[m])
    BY <1>0, <1>2, <1>5 DEF IsPicture
  <2>2. after.contents = [m \in Layers |-> after.contents[m]] /\ after.pos = pic.pos
    BY <1>0, <1>4 DEF IsPicture
  <2> QED BY <1>0, <1>4, <2>1, <2>2 DEF IsPicture
<1>7. PICK rects : rects = <<rect>>
  OBVIOUS
<1>8. PICK moved : moved = [k \in DOMAIN rects |-> offset(rects[k], pic.pos[l])]
  OBVIOUS
<1>9. PICK there : there = offset(rect, pic.pos[l])
  OBVIOUS
<1>10. there \in Rects
  <2>1. <<0, 0>> \in Int \X Int
    OBVIOUS
  <2> QED BY <1>0, <1>9, <2>1, OffsetIncludes
<1>11. moved = <<there>> /\ merge_rects(moved) = there /\ moved # <<>>
  <2>1. moved = <<there>>
    BY <1>7, <1>8, <1>9
  <2>2. moved \in Seq(Rects) /\ Len(moved) = 1 /\ moved[1] = there /\ moved # <<>>
    BY <1>10, <2>1
  <2> QED BY <2>1, <2>2, MergedRects
<1>12. r = screen_damage(after, l, moved)
  <2>1. [pic EXCEPT !.contents[l] = Painted(@, rect, color)] = after
    BY <1>1, <1>3
  <2>2. r = layer_damage(after, l, rects)
    BY <1>7, <2>1 DEF PaintedLayer
  <2>3. after.pos[l] = pic.pos[l]
    BY <1>4
  <2>4. r = manager_damage(after, l, moved)
    BY <1>8, <2>2, <2>3 DEF layer_damage
  <2> QED BY <2>4 DEF manager_damage, ManagerOf
<1>13. ASSUME NEW m \in Layers, m # l, NEW p PROVE SameAt(pic, after, m, p)
  <2>1. pic.pos[m] = after.pos[m] /\ pic.contents[m] = after.contents[m]
    BY <1>4, <1>5, <1>13
  <2> QED BY <2>1, SameLayer
<1>14. ChangedIn(pic, after, ScreenStack, screen_size, l, there)
  <2> SUFFICES ASSUME NEW k \in 1..Len(ScreenStack), NEW p \in Points(screen_size),
                      ScreenStack[k] # l \/ ~includes_point(there, p)
               PROVE  SameAt(pic, after, ScreenStack[k], p)
    BY DEF ChangedIn
  <2>1. ScreenStack[k] \in Layers
    BY Stacks, ElementOfSeq
  <2>2. CASE ScreenStack[k] # l
    BY <1>13, <2>1, <2>2
  <2>3. CASE ScreenStack[k] = l /\ ~includes_point(there, p)
    <3>1. p \in Int \X Int
      BY SizesAssumption DEF Points
    <3>2. ~includes_point(rect, Subtract(p, pic.pos[l]))
      BY <1>0, <1>9, <2>3, <3>1, OffsetIncludes
    <3>3. after.pos[l] = pic.pos[l] /\ manager_area(after, l) = manager_area(pic, l)
      BY <1>4 DEF manager_area
    <3>4. includes_point(manager_area(pic, l), p) => ColorAt(after, l, p) = ColorAt(pic, l, p)
      <4>1. includes_point(manager_area(pic, l), p)
               => Subtract(p, pic.pos[l]) \in Points(LayerSizes[l])
        BY <1>0, <3>1, AreaPoints
      <4> QED BY <1>0, <1>2, <1>5, <3>2, <3>3, <4>1 DEF ColorAt
    <3> QED BY <2>3, <3>3, <3>4 DEF SameAt, Visible
  <2> QED BY <2>2, <2>3
<1>15. ShowsStack(after, GroupStack, LayerSizes["group"], after.contents["group"])
  <2>1. \A k \in 1..Len(GroupStack), p \in Points(LayerSizes["group"]) :
           SameAt(pic, after, GroupStack[k], p)
    <3> SUFFICES ASSUME NEW k \in 1..Len(GroupStack), NEW p \in Points(LayerSizes["group"])
                 PROVE  SameAt(pic, after, GroupStack[k], p)
      OBVIOUS
    <3>1. GroupStack[k] \in {"group_bg", "test"}
      BY Stacks
    <3>2. GroupStack[k] \in Layers /\ GroupStack[k] # l
      BY <3>1 DEF Layers
    <3> QED BY <1>13, <3>2
  <2>2. ShowsStack(pic, GroupStack, LayerSizes["group"], pic.contents["group"])
    BY DEF Composed
  <2>3. after.contents["group"] = pic.contents["group"]
    BY <1>5 DEF Layers
  <2> QED BY <2>1, <2>2, <2>3, ShowsSame, Stacks
<1>16. after.stack = pic.stack /\ after.back = pic.back /\ after.screen = pic.screen
       /\ after.pos = pic.pos
  BY <1>4
<1>17. Changed(pic, after, l, merge_rects(moved))
  BY <1>6, <1>10, <1>11, <1>14, <1>15, <1>16 DEF Changed, Composed
<1>18. Composed(r) /\ r.pos = after.pos /\ r.stack = after.stack
  BY <1>11, <1>12, <1>17, ScreenUpdated
<1> QED BY <1>16, <1>18

\* Moving the test layer: the group's buffer is brought up to date, then the screen.
LEMMA MovedInGroup ==
    ASSUME has_buffer, NEW pic, Composed(pic), NEW q \in Int \X Int, NEW r, r = Moved(pic, "test", q)
    PROVE  Composed(r) /\ r.pos = [pic.pos EXCEPT !["test"] = q] /\ r.stack = pic.stack
<1>0. /\ IsPicture(pic) /\ "test" \in Layers /\ "group" \in Layers
      /\ pic.pos["group"] \in Int \X Int /\ pic.contents["group"] \in Images(LayerSizes["group"])
      /\ LayerSizes["group"] \in Nat \X Nat
  BY SizesAssumption DEF Composed, Layers, IsPicture
<1>1. PICK after : after = [pic EXCEPT !.pos["test"] = q]
  OBVIOUS
<1>2. after = [stack |-> pic.stack, pos |-> [pic.pos EXCEPT !["test"] = q], contents |-> pic.contents,
               back |-> pic.back, screen |-> pic.screen]
  BY <1>0, <1>1 DEF IsPicture
<1>3. IsPicture(after)
  BY <1>0, <1>2 DEF IsPicture
<1>4. PICK a : a = manager_area(pic, "test")
  OBVIOUS
<1>5. PICK b : b = manager_area(after, "test")
  OBVIOUS
<1>6. a \in Rects /\ b \in Rects /\ <<0, 0>> \in Int \X Int
  <2>1. <<0, 0>> \in Int \X Int
    OBVIOUS
  <2> QED BY <1>0, <1>3, <1>4, <1>5, <2>1, AreaPoints
<1>7. PICK rects : rects = <<a, b>>
  OBVIOUS
<1>8. PICK rect : rect = merge(a, b)
  OBVIOUS
<1>9. /\ rects \in Seq(Rects) /\ Len(rects) = 2 /\ rects[1] = a /\ rects[2] = b /\ rects # <<>>
      /\ DOMAIN rects = 1..2
  BY <1>6, <1>7
<1>10. merge_rects(rects) = rect /\ rect \in Rects
  BY <1>6, <1>8, <1>9, MergedRects, MergeIncludes
<1>11. PICK redrawn : redrawn = draw_damage_to(after, GroupStack, pic.contents["group"],
                                             LayerSizes["group"], "test", rect)
  OBVIOUS
<1>12. Redrawn(after, GroupStack, LayerSizes["group"], pic.contents["group"], "test", rect, redrawn)
  <2>1. after.pos["bg"] = <<0, 0>> /\ after.pos["group_bg"] = <<0, 0>>
    BY <1>0, <1>2 DEF Composed, IsPicture, Layers
  <2>2. Backed(after, GroupStack, LayerSizes["group"])
    BY <1>3, <2>1, StacksBacked
  <2> QED BY <1>0, <1>3, <1>10, <1>11, <2>2, Stacks, DamageDrawn
<1>13. ASSUME NEW m \in Layers, m # "test", NEW p PROVE SameAt(pic, after, m, p)
  <2>1. pic.pos[m] = after.pos[m] /\ pic.contents[m] = after.contents[m]
    BY <1>0, <1>2, <1>13 DEF IsPicture
  <2> QED BY <2>1, SameLayer
<1>14. ShowsStack(after, GroupStack, LayerSizes["group"], redrawn)
  <2>1. ChangedIn(pic, after, GroupStack, LayerSizes["group"], "test", rect)
    <3> SUFFICES ASSUME NEW k \in 1..Len(GroupStack), NEW p \in Points(LayerSizes["group"]),
                        GroupStack[k] # "test" \/ ~includes_point(rect, p)
                 PROVE  SameAt(pic, after, GroupStack[k], p)
      BY DEF ChangedIn
    <3>1. GroupStack[k] \in Layers
      BY Stacks, ElementOfSeq
    <3>2. CASE GroupStack[k] # "test"
      BY <1>13, <3>1, <3>2
    <3>3. CASE GroupStack[k] = "test" /\ ~includes_point(rect, p)
      <4>1. p \in Int \X Int
        BY <1>0 DEF Points
      <4>2. ~includes_point(a, p) /\ ~includes_point(b, p)
        BY <1>6, <1>8, <3>3, <4>1, MergeIncludes
      <4> QED BY <1>4, <1>5, <3>3, <4>2 DEF SameAt, Visible
    <3> QED BY <3>2, <3>3
  <2>2. ShowsStack(pic, GroupStack, LayerSizes["group"], pic.contents["group"])
    BY DEF Composed
  <2> QED BY <1>12, <2>1, <2>2, RedrawnShows, Stacks
<1>15. PICK drawn : drawn = [after EXCEPT !.contents["group"] = redrawn]
  OBVIOUS
<1>16. drawn = [stack |-> pic.stack, pos |-> after.pos,
                contents |-> [pic.contents EXCEPT !["group"] = redrawn],
                back |-> pic.back, screen |-> pic.screen]
  BY <1>2, <1>15
<1>17. \A m \in Layers : drawn.contents[m] = IF m = "group" THEN redrawn ELSE pic.contents[m]
  BY <1>0, <1>16 DEF IsPicture
<1>18. IsPicture(drawn)
  <2>1. redrawn \in Images(LayerSizes["group"])
    BY <1>12 DEF Redrawn
  <2>2. \A m \in Layers : drawn.contents[m] \in Images(LayerSizes[m])
    BY <1>0, <1>17, <2>1 DEF IsPicture
  <2>3. drawn.contents = [m \in Layers |-> drawn.contents[m]] /\ drawn.pos = after.pos
    BY <1>0, <1>16 DEF IsPicture
  <2> QED BY <1>3, <1>16, <2>2, <2>3 DEF IsPicture
<1>19. ShowsStack(drawn, GroupStack, LayerSizes["group"], drawn.contents["group"])
  <2>1. \A k \in 1..Len(GroupStack), p \in Points(LayerSizes["group"]) :
           SameAt(after, drawn, GroupStack[k], p)
    <3> SUFFICES ASSUME NEW k \in 1..Len(GroupStack), NEW p \in Points(LayerSizes["group"])
                 PROVE  SameAt(after, drawn, GroupStack[k], p)
      OBVIOUS
    <3>1. GroupStack[k] \in {"group_bg", "test"}
      BY Stacks
    <3>2. /\ after.pos[GroupStack[k]] = drawn.pos[GroupStack[k]]
          /\ after.contents[GroupStack[k]] = drawn.contents[GroupStack[k]]
      BY <1>2, <1>16, <1>17, <3>1 DEF Layers
    <3> QED BY <3>2, SameLayer
  <2>2. drawn.contents["group"] = redrawn
    BY <1>0, <1>17
  <2> QED BY <1>14, <2>1, <2>2, ShowsSame, Stacks
<1>20. PICK moved : moved = [k \in DOMAIN rects |-> offset(rects[k], pic.pos["group"])]
  OBVIOUS
<1>21. PICK there : there = offset(rect, pic.pos["group"])
  OBVIOUS
<1>22. there \in Rects /\ merge_rects(moved) = there /\ moved # <<>>
  <2>1. /\ offset(a, pic.pos["group"]) \in Rects /\ offset(b, pic.pos["group"]) \in Rects
        /\ there \in Rects
    BY <1>0, <1>6, <1>10, <1>21, OffsetIncludes
  <2>2. moved = <<offset(a, pic.pos["group"]), offset(b, pic.pos["group"])>>
    BY <1>7, <1>20
  <2>3. /\ moved \in Seq(Rects) /\ Len(moved) = 2 /\ moved # <<>>
        /\ moved[1] = offset(a, pic.pos["group"]) /\ moved[2] = offset(b, pic.pos["group"])
    BY <2>1, <2>2
  <2>4. merge_rects(moved) = merge(offset(a, pic.pos["group"]), offset(b, pic.pos["group"]))
    BY <2>3, MergedRects
  <2> QED BY <1>0, <1>6, <1>8, <1>21, <2>1, <2>3, <2>4, MergeOffset
<1>23. r = screen_damage(drawn, "group", moved)
  <2>1. r = manager_damage(after, "test", rects)
    BY <1>1, <1>4, <1>5, <1>7 DEF Moved
  <2>2. r = group_damage(after, "test", rects)
    BY <2>1 DEF manager_damage, ManagerOf
  <2>3. after.stack["group"] = GroupStack /\ after.contents["group"] = pic.contents["group"]
    BY <1>2 DEF Composed
  <2>4. r = parent_damage(drawn, rects)
    BY <1>9, <1>10, <1>11, <1>15, <2>2, <2>3 DEF group_damage
  <2>5. drawn.pos["group"] = pic.pos["group"]
    BY <1>0, <1>2, <1>16 DEF IsPicture
  <2> QED BY <1>20, <2>4, <2>5 DEF parent_damage
<1>24. ChangedIn(pic, drawn, ScreenStack, screen_size, "group", there)
  <2> SUFFICES ASSUME NEW k \in 1..Len(ScreenStack), NEW p \in Points(screen_size),
                      ScreenStack[k] # "group" \/ ~includes_point(there, p)
               PROVE  SameAt(pic, drawn, ScreenStack[k], p)
    BY DEF ChangedIn
  <2>0. ScreenStack[k] \in {"bg", "console", "group", "main_window", "mouse"}
    BY Stacks
  <2>1. ScreenStack[k] \in Layers /\ ScreenStack[k] # "test"
    BY <2>0 DEF Layers
  <2>2. pic.pos[ScreenStack[k]] = drawn.pos[ScreenStack[k]]
    BY <1>0, <1>2, <1>16, <2>1 DEF IsPicture
  <2>3. CASE ScreenStack[k] # "group"
    BY <1>17, <2>1, <2>2, <2>3, SameLayer
  <2>4. CASE ScreenStack[k] = "group" /\ ~includes_point(there, p)
    <3>1. p \in Int \X Int
      BY SizesAssumption DEF Points
    <3>2. ~includes_point(rect, Subtract(p, pic.pos["group"]))
      BY <1>0, <1>10, <1>21, <2>4, <3>1, OffsetIncludes
    <3>3. drawn.pos["group"] = pic.pos["group"]
          /\ manager_area(drawn, "group") = manager_area(pic, "group")
      BY <2>2, <2>4 DEF manager_area
    <3>4. includes_point(manager_area(pic, "group"), p)
             => ColorAt(drawn, "group", p) = ColorAt(pic, "group", p)
      <4>1. includes_point(manager_area(pic, "group"), p)
               => Subtract(p, pic.pos["group"]) \in Points(LayerSizes["group"])
        BY <1>0, <3>1, AreaPoints
      <4>2. \A x \in Points(LayerSizes["group"]) :
               ~includes_point(rect, x) => redrawn[x] = pic.contents["group"][x]
        BY <1>12 DEF Redrawn
      <4> QED BY <1>0, <1>17, <3>2, <3>3, <4>1, <4>2 DEF ColorAt
    <3> QED BY <2>4, <3>3, <3>4 DEF SameAt, Visible
  <2> QED BY <2>3, <2>4
<1>25. drawn.pos["bg"] = <<0, 0>> /\ drawn.pos["group_bg"] = <<0, 0>>
  BY <1>0, <1>2, <1>16 DEF Composed, IsPicture, Layers
<1>26. drawn.stack = pic.stack /\ drawn.back = pic.back /\ drawn.screen = pic.screen
       /\ drawn.pos = [pic.pos EXCEPT !["test"] = q]
  BY <1>2, <1>16
<1>27. Changed(pic, drawn, "group", merge_rects(moved))
  BY <1>18, <1>19, <1>22, <1>24, <1>25, <1>26 DEF Changed
<1>28. Composed(r) /\ r.pos = drawn.pos /\ r.stack = drawn.stack
  BY <1>22, <1>23, <1>27, ScreenUpdated
<1> QED BY <1>26, <1>28

-----------------------------------------------------------------------------
(* Layers: initialize_graphics                                              *)

\* The stacks when the first n layers have been shown
StackedTo(stack, n) ==
    /\ stack = [m \in Managers |-> stack[m]]
    /\ stack["group"] = SubSeq(GroupStack, 1, min(n, 2))
    /\ stack["screen"] = SubSeq(ScreenStack, 1, max(n - 2, 0))

\* What holds of the picture then: the group's buffer is in use from the beginning.
Composing(pic, n) ==
    /\ IsPicture(pic) /\ pic.pos = LayerPositions /\ StackedTo(pic.stack, n)
    /\ pic.back = pic.screen /\ pic.back \in Images(screen_size)
    /\ n >= 1 => ShowsStack(pic, pic.stack["group"], LayerSizes["group"], pic.contents["group"])

\* A layer that is inserted at the height of the stack comes to lie on top.
LEMMA InsertedOnTop ==
    ASSUME NEW stack \in Seq(Layers), NEW id \in Layers, ~Contains(stack, id)
    PROVE  /\ RemoveFirst(stack, id) = stack
           /\ InsertAt(stack, Len(stack) + 1, id) = Append(stack, id)
<1>0. Len(stack) \in Nat /\ DOMAIN stack = 1..Len(stack)
  BY LenProperties
<1>1. RemoveFirst(stack, id) = stack
  BY DEF RemoveFirst, Contains
<1>2. SubSeq(stack, 1, Len(stack)) = stack /\ SubSeq(stack, Len(stack) + 1, Len(stack)) = <<>>
  BY <1>0
<1>3. InsertAt(stack, Len(stack) + 1, id) = stack \o <<id>> \o <<>>
  <2>1. (Len(stack) + 1) - 1 = Len(stack)
    BY <1>0
  <2>2. InsertAt(stack, Len(stack) + 1, id)
           = SubSeq(stack, 1, (Len(stack) + 1) - 1) \o <<id>> \o SubSeq(stack, Len(stack) + 1, Len(stack))
    BY Zenon DEF InsertAt
  <2> QED BY <1>2, <2>1, <2>2, Zenon
<1> QED BY <1>0, <1>1, <1>3

\* A longer prefix of a stack is a shorter one with a layer on top.
LEMMA NextPrefix ==
    ASSUME NEW stack \in Seq(Layers), NEW k \in Nat, k < Len(stack)
    PROVE  /\ SubSeq(stack, 1, k) \in Seq(Layers) /\ Len(SubSeq(stack, 1, k)) = k
           /\ \A j \in 1..k : SubSeq(stack, 1, k)[j] = stack[j]
           /\ Append(SubSeq(stack, 1, k), stack[k + 1]) = SubSeq(stack, 1, k + 1)
<1>0. Len(stack) \in Nat /\ DOMAIN stack = 1..Len(stack)
  BY LenProperties
<1>1. /\ SubSeq(stack, 1, k) \in Seq(Layers) /\ Len(SubSeq(stack, 1, k)) = k
      /\ \A j \in 1..k : SubSeq(stack, 1, k)[j] = stack[j]
  BY <1>0
<1>2. /\ SubSeq(stack, 1, k + 1) \in Seq(Layers) /\ Len(SubSeq(stack, 1, k + 1)) = k + 1
      /\ \A j \in 1..(k + 1) : SubSeq(stack, 1, k + 1)[j] = stack[j]
  BY <1>0
<1>3. PICK s : s = SubSeq(stack, 1, k)
  OBVIOUS
<1>4. PICK t : t = SubSeq(stack, 1, k + 1)
  OBVIOUS
<1>5. stack[k + 1] \in Layers
  BY <1>0, ElementOfSeq
<1>6. Append(s, stack[k + 1]) = t
  <2>1. /\ Append(s, stack[k + 1]) \in Seq(Layers) /\ Len(Append(s, stack[k + 1])) = k + 1
        /\ \A j \in 1..(k + 1) : Append(s, stack[k + 1])[j] = IF j = k + 1 THEN stack[k + 1] ELSE s[j]
    BY <1>1, <1>3, <1>5
  <2>2. \A j \in 1..(k + 1) : Append(s, stack[k + 1])[j] = t[j]
    <3> SUFFICES ASSUME NEW j \in 1..(k + 1) PROVE Append(s, stack[k + 1])[j] = t[j]
      OBVIOUS
    <3>1. j = k + 1 \/ j \in 1..k
      OBVIOUS
    <3> QED BY <1>1, <1>2, <1>3, <1>4, <2>1, <3>1
  <2> QED BY <1>2, <1>4, <2>1, <2>2, SeqEqual
<1> QED BY <1>1, <1>3, <1>4, <1>6

\* The stacks at each call of up_down, and the layer it shows
LEMMA ShowsAt ==
    ASSUME NEW n \in 0..6
    PROVE  IF n < 2 THEN Shows[n + 1] = <<GroupStack[n + 1], n>>
                    ELSE Shows[n + 1] = <<ScreenStack[n - 1], n - 2>>
<1>1. n = 0 \/ n = 1 \/ n = 2 \/ n = 3 \/ n = 4 \/ n = 5 \/ n = 6
  OBVIOUS
<1> QED BY <1>1 DEF Shows, GroupStack, ScreenStack

\* up_down while the screen has no buffer yet: a layer of the screen is put on top.
LEMMA ShownOnScreen ==
    ASSUME ~has_buffer, NEW n \in 2..6, NEW pic, Composing(pic, n),
           NEW r, r = up_down(pic, Shows[n + 1][1], Shows[n + 1][2])
    PROVE  Composing(r, n + 1)
<1>1. PICK id : id = ScreenStack[n - 1]
  OBVIOUS
<1>2. Shows[n + 1][1] = id /\ Shows[n + 1][2] = n - 2
  BY <1>1, ShowsAt
<1>3. /\ ManagerOf(id) = "screen" /\ id \in Layers
      /\ \A j \in 1..(n - 2) : ScreenStack[j] # id
  <2>1. n = 2 \/ n = 3 \/ n = 4 \/ n = 5 \/ n = 6
    OBVIOUS
  <2> QED BY <1>1, <2>1, Stacks DEF ManagerOf, Layers
<1>4. PICK stack : stack = SubSeq(ScreenStack, 1, n - 2)
  OBVIOUS
<1>5. /\ n - 2 \in Nat /\ n - 2 < Len(ScreenStack) /\ (n - 2) + 1 = n - 1
      /\ max(n - 2, 0) = n - 2 /\ min(n, 2) = 2 /\ min(n + 1, 2) = 2
  BY Stacks DEF max, min
<1>6. /\ stack \in Seq(Layers) /\ Len(stack) = n - 2 /\ ~Contains(stack, id)
      /\ Append(stack, id) = SubSeq(ScreenStack, 1, n - 1)
  BY SMTT(30), <1>1, <1>3, <1>4, <1>5, NextPrefix, Stacks DEF Contains
<1>7. pic.stack["screen"] = stack
  BY <1>4, <1>5 DEF Composing, StackedTo
<1>8. /\ RemoveFirst(stack, id) = stack /\ InsertAt(stack, (n - 2) + 1, id) = Append(stack, id)
  BY <1>3, <1>6, InsertedOnTop
<1>9. PICK raised : raised = [pic EXCEPT !.stack["screen"] = Append(stack, id)]
  OBVIOUS
<1>10. min(n - 2, n - 2) = n - 2
  BY DEF min
<1>11. r = manager_damage(raised, id, <<manager_area(raised, id)>>)
  BY <1>2, <1>3, <1>6, <1>7, <1>8, <1>9, <1>10 DEF up_down
<1>12. r = raised
  BY <1>3, <1>11 DEF manager_damage, screen_damage
<1>13. r = [stack |-> [pic.stack EXCEPT !["screen"] = Append(stack, id)], pos |-> pic.pos,
            contents |-> pic.contents, back |-> pic.back, screen |-> pic.screen]
  BY <1>9, <1>12 DEF Composing, IsPicture
<1>14. StackedTo(r.stack, n + 1) /\ r.stack["group"] = pic.stack["group"]
  <2>1. /\ r.stack = [m \in Managers |-> r.stack[m]] /\ r.stack["group"] = pic.stack["group"]
        /\ r.stack["screen"] = Append(stack, id)
    <3>1. r.stack = [pic.stack EXCEPT !["screen"] = Append(stack, id)]
      BY <1>13
    <3>2. pic.stack = [m \in Managers |-> pic.stack[m]]
      BY DEF Composing, StackedTo
    <3> QED BY <3>1, <3>2 DEF Managers
  <2>2. max((n + 1) - 2, 0) = n - 1
    BY DEF max
  <2>3. pic.stack["group"] = SubSeq(GroupStack, 1, min(n + 1, 2))
    BY <1>5 DEF Composing, StackedTo
  <2> QED BY Zenon, <1>6, <2>1, <2>2, <2>3 DEF StackedTo
<1>15. IsPicture(r)
  BY <1>13 DEF Composing, IsPicture
<1>16. ShowsStack(r, r.stack["group"], LayerSizes["group"], r.contents["group"])
  <2>1. ShowsStack(pic, pic.stack["group"], LayerSizes["group"], pic.contents["group"])
    BY DEF Composing
  <2>2. pic.stack["group"] \in Seq(Layers)
    <3>1. pic.stack["group"] = SubSeq(GroupStack, 1, 2)
      BY <1>5 DEF Composing, StackedTo
    <3> QED BY <3>1, Stacks
  <2>3. \A k \in 1..Len(pic.stack["group"]), p \in Points(LayerSizes["group"]) :
           SameAt(pic, r, pic.stack["group"][k], p)
    BY <1>13, SameLayer
  <2>4. ShowsStack(r, pic.stack["group"], LayerSizes["group"], pic.contents["group"])
    BY <2>1, <2>2, <2>3, ShowsSame
  <2>5. r.contents = pic.contents
    BY <1>13
  <2> QED BY <1>14, <2>4, <2>5
<1> QED BY <1>13, <1>14, <1>15, <1>16 DEF Composing

\* A layer of the group is put on top and drawn into the group's buffer.
LEMMA ShownInGroup ==
    ASSUME ~has_buffer, NEW n \in 0..1, NEW pic, Composing(pic, n),
           NEW r, r = up_down(pic, Shows[n + 1][1], Shows[n + 1][2])
    PROVE  Composing(r, n + 1)
<1> DEFINE extent == LayerSizes["group"]
<1>0. IsPicture(pic) /\ pic.pos = LayerPositions /\ extent \in Nat \X Nat
      /\ pic.contents["group"] \in Images(extent)
  BY SizesAssumption DEF Composing, IsPicture, Layers
<1>1. PICK id : id = GroupStack[n + 1]
  OBVIOUS
<1>2. Shows[n + 1][1] = id /\ Shows[n + 1][2] = n
  BY <1>1, ShowsAt
<1>3. /\ ManagerOf(id) = "group" /\ id \in Layers /\ id # "group"
      /\ \A j \in 1..n : GroupStack[j] # id
  <2>1. n = 0 \/ n = 1
    OBVIOUS
  <2> QED BY <1>1, <2>1, Stacks DEF ManagerOf, Layers
<1>4. PICK stack : stack = SubSeq(GroupStack, 1, n)
  OBVIOUS
<1>5. /\ n \in Nat /\ n < Len(GroupStack) /\ max(n - 2, 0) = 0 /\ max((n + 1) - 2, 0) = 0
      /\ min(n, 2) = n /\ min(n + 1, 2) = n + 1 /\ min(n, n) = n
  BY Stacks DEF max, min
<1>6. /\ stack \in Seq(Layers) /\ Len(stack) = n /\ ~Contains(stack, id)
      /\ \A j \in 1..n : stack[j] = GroupStack[j]
      /\ Append(stack, id) = SubSeq(GroupStack, 1, n + 1)
  BY <1>1, <1>3, <1>4, <1>5, NextPrefix, Stacks DEF Contains
<1>7. pic.stack["group"] = stack
  BY <1>4, <1>5 DEF Composing, StackedTo
<1>8. /\ RemoveFirst(stack, id) = stack /\ InsertAt(stack, n + 1, id) = Append(stack, id)
  BY <1>3, <1>6, InsertedOnTop
<1>9. PICK new : new = Append(stack, id)
  OBVIOUS
<1>10. /\ new \in Seq(Layers) /\ new # <<>> /\ Len(new) = n + 1 /\ new[n + 1] = id
       /\ \A j \in 1..n : new[j] = stack[j]
       /\ \A j \in 1..(n + 1) : new[j] = GroupStack[j]
  <2>1. /\ new \in Seq(Layers) /\ new # <<>> /\ Len(new) = n + 1 /\ new[n + 1] = id
        /\ \A j \in 1..n : new[j] = stack[j]
    <3>1. /\ new \in Seq(Layers) /\ new # <<>> /\ Len(new) = Len(stack) + 1
          /\ new[Len(stack) + 1] = id /\ \A j \in 1..Len(stack) : new[j] = stack[j]
      <4>1. stack \in Seq(Layers) /\ id \in Layers
        BY <1>3, <1>6
      <4>2. /\ Append(stack, id) \in Seq(Layers) /\ Append(stack, id) # <<>>
            /\ Len(Append(stack, id)) = Len(stack) + 1 /\ Append(stack, id)[Len(stack) + 1] = id
            /\ \A j \in 1..Len(stack) : Append(stack, id)[j] = stack[j]
        BY <4>1, AppendProperties
      <4> QED BY <1>9, <4>2
    <3>2. Len(stack) = n
      BY <1>6
    <3> QED BY <3>1, <3>2
  <2>2. \A j \in 1..(n + 1) : j = n + 1 \/ j \in 1..n
    OBVIOUS
  <2> QED BY <1>1, <1>6, <2>1, <2>2
<1>11. PICK raised : raised = [pic EXCEPT !.stack["group"] = new]
  OBVIOUS
<1>12. raised = [stack |-> [pic.stack EXCEPT !["group"] = new], pos |-> pic.pos,
                 contents |-> pic.contents, back |-> pic.back, screen |-> pic.screen]
  BY <1>0, <1>11 DEF IsPicture
<1>13. IsPicture(raised) /\ raised.stack["group"] = new
  BY <1>0, <1>12 DEF IsPicture, Composing, StackedTo, Managers
<1>14. PICK rect : rect = manager_area(raised, id)
  OBVIOUS
<1>15. rect \in Rects /\ merge_rects(<<rect>>) = rect /\ <<rect>> # <<>>
  <2>1. <<0, 0>> \in Int \X Int
    OBVIOUS
  <2>2. rect \in Rects
    BY <1>3, <1>13, <1>14, <2>1, AreaPoints
  <2>3. <<rect>> \in Seq(Rects) /\ Len(<<rect>>) = 1 /\ <<rect>>[1] = rect /\ <<rect>> # <<>>
    BY <2>2
  <2> QED BY <2>2, <2>3, MergedRects
<1>16. r = group_damage(raised, id, <<rect>>)
  <2>1. r = manager_damage(raised, id, <<rect>>)
    <3>1. pic.stack[ManagerOf(id)] = stack /\ min(n, Len(stack)) + 1 = n + 1
      BY <1>3, <1>5, <1>6, <1>7
    <3>2. raised = [pic EXCEPT !.stack[ManagerOf(id)] = InsertAt(stack, min(n, Len(stack)) + 1, id)]
      BY <1>3, <1>8, <1>9, <1>11, <3>1
    <3>3. r = up_down(pic, id, n)
      BY <1>2
    <3> QED BY <1>8, <1>14, <3>1, <3>2, <3>3 DEF up_down
  <2> QED BY <1>3, <2>1 DEF manager_damage
<1>17. PICK redrawn : redrawn = draw_damage_to(raised, new, pic.contents["group"], extent, id, rect)
  OBVIOUS
<1>18. r = [raised EXCEPT !.contents["group"] = redrawn]
  <2>1. r = parent_damage([raised EXCEPT !.contents["group"] = redrawn], <<rect>>)
    BY <1>12, <1>13, <1>15, <1>16, <1>17 DEF group_damage
  <2> QED BY <2>1 DEF parent_damage, screen_damage
<1>19. /\ raised.pos["group_bg"] = <<0, 0>> /\ LayerSizes["group_bg"] = extent
       /\ "group_bg" \in Layers /\ TransparentColor("group_bg") = "none"
  BY <1>0, <1>12, SizesAssumption DEF Layers, TransparentColor
<1>20. \A p \in Points(extent) : Visible(raised, "group_bg", p)
  BY <1>13, <1>19, OpaqueVisible
<1>21. new[1] = "group_bg" /\ 1 \in 1..Len(new)
  BY <1>5, <1>10, Stacks
<1>22. Backed(raised, new, extent)
  BY <1>20, <1>21 DEF Backed
<1>23. Redrawn(raised, new, extent, pic.contents["group"], id, rect, redrawn)
  BY <1>0, <1>10, <1>13, <1>15, <1>17, <1>22, DamageDrawn
<1>24. ASSUME NEW p \in Points(extent) PROVE IsSeen(raised, new, p, redrawn[p])
  <2>1. n + 1 \in 1..Len(new) /\ \A k \in 1..Len(new) : n + 1 \in k..Len(new)
    BY <1>5, <1>10
  <2>2. CASE includes_point(rect, p) /\ IsSeen(raised, new, p, redrawn[p])
    BY <2>2
  <2>3. CASE redrawn[p] = pic.contents["group"][p] /\ ~includes_point(rect, p)
    <3>1. ~Visible(raised, id, p)
      BY <1>14, <2>3 DEF Visible
    <3>2. n = 1
      <4>1. CASE n = 0
        <5>1. id = "group_bg"
          BY <1>10, <1>21, <4>1
        <5> QED BY <1>20, <3>1, <5>1
      <4> QED BY <4>1
    <3>3. IsSeen(pic, stack, p, pic.contents["group"][p])
      BY <1>7, <3>2 DEF Composing, ShowsStack
    <3>4. PICK k \in 1..Len(stack) : Frontmost(pic, stack, p, k)
                                     /\ redrawn[p] = ColorAt(pic, stack[k], p)
      BY <2>3, <3>3 DEF IsSeen
    <3>5. \A l : SameAt(pic, raised, l, p)
      BY <1>12, SameLayer
    <3>6. k \in 1..Len(new) /\ new[k] = stack[k]
      BY <1>5, <1>6, <1>10
    <3>7. Visible(pic, stack[k], p)
      BY <3>4 DEF Frontmost
    <3>8. Visible(raised, new[k], p) /\ redrawn[p] = ColorAt(raised, new[k], p)
      BY <3>4, <3>5, <3>6, <3>7 DEF SameAt
    <3>9. ASSUME NEW j \in 1..Len(new), k < j PROVE ~Visible(raised, new[j], p)
      <4>1. j = n + 1 \/ j \in 1..n
        BY <1>5, <1>10
      <4>2. CASE j = n + 1
        BY <1>10, <3>1, <4>2
      <4>3. CASE j \in 1..n
        <5>1. ~Visible(pic, stack[j], p)
          BY <1>6, <3>4, <3>9, <4>3 DEF Frontmost
        <5> QED BY <1>10, <3>5, <4>3, <5>1 DEF SameAt
      <4> QED BY <4>1, <4>2, <4>3
    <3> QED BY <3>6, <3>8, <3>9 DEF IsSeen, Frontmost
  <2>4. CASE \E k \in 1..Len(new) : \A j \in k..Len(new) : new[j] # id
    BY <1>10, <2>1, <2>4
  <2> QED BY <1>23, <2>2, <2>3, <2>4 DEF Redrawn
<1>25. r = [stack |-> raised.stack, pos |-> pic.pos,
            contents |-> [pic.contents EXCEPT !["group"] = redrawn],
            back |-> pic.back, screen |-> pic.screen]
  BY <1>12, <1>18
<1>26. \A m \in Layers : r.contents[m] = IF m = "group" THEN redrawn ELSE pic.contents[m]
  BY <1>0, <1>25 DEF IsPicture
<1>27. IsPicture(r)
  <2>1. redrawn \in Images(extent)
    BY <1>23 DEF Redrawn
  <2>2. \A m \in Layers : r.contents[m] \in Images(LayerSizes[m])
    BY <1>0, <1>26, <2>1 DEF IsPicture
  <2>3. r.contents = [m \in Layers |-> r.contents[m]] /\ r.pos = pic.pos
    BY SMTT(30), <1>0, <1>25 DEF IsPicture
  <2> QED BY <1>0, <1>25, <2>2, <2>3 DEF IsPicture
<1>28. StackedTo(r.stack, n + 1) /\ r.stack["group"] = new
  <2>1. r.stack = [pic.stack EXCEPT !["group"] = new]
    BY <1>12, <1>25
  <2>2. /\ r.stack = [m \in Managers |-> r.stack[m]] /\ r.stack["screen"] = pic.stack["screen"]
        /\ r.stack["group"] = new
    BY <2>1 DEF Composing, StackedTo, Managers
  <2>3. pic.stack["screen"] = SubSeq(ScreenStack, 1, max((n + 1) - 2, 0))
    BY <1>5 DEF Composing, StackedTo
  <2> QED BY Zenon, <1>5, <1>6, <1>9, <2>2, <2>3 DEF StackedTo
<1>29. ShowsStack(r, new, extent, redrawn)
  <2>1. ShowsStack(raised, new, extent, redrawn)
    BY <1>24 DEF ShowsStack
  <2>2. \A k \in 1..Len(new), p \in Points(extent) : SameAt(raised, r, new[k], p)
    <3> SUFFICES ASSUME NEW k \in 1..Len(new), NEW p \in Points(extent)
                 PROVE  SameAt(raised, r, new[k], p)
      OBVIOUS
    <3>1. new[k] \in {"group_bg", "test"}
      BY SMTT(30), <1>5, <1>10, Stacks
    <3>2. raised.pos[new[k]] = r.pos[new[k]] /\ raised.contents[new[k]] = r.contents[new[k]]
      BY <1>12, <1>25, <1>26, <3>1 DEF Layers
    <3> QED BY <3>2, SameLayer
  <2> QED BY <1>10, <2>1, <2>2, ShowsSame
<1>30. r.contents["group"] = redrawn
  BY <1>26 DEF Layers
<1> QED BY <1>25, <1>27, <1>28, <1>29, <1>30 DEF Composing

-----------------------------------------------------------------------------
(* Layers: the invariant                                                    *)

\* The inductive invariant: while initialize_graphics shows the layers, the screen has not
\* been touched and the group shows its layers so far; from set_buffer and draw on the screen
\* and the group both show theirs.
PictureInv ==
    /\ shown \in 0..7 /\ c \in Int
    /\ pc = "show" <=> ~has_buffer
    /\ ~has_buffer => Composing(Picture, shown)
    /\ has_buffer => Composed(Picture)

\* Initially no layer has been shown and every layer has its first colours.
LEMMA InitPictureInv == Init => PictureInv
<1> SUFFICES ASSUME Init PROVE PictureInv
  OBVIOUS
<1>1. shown = 0 /\ c = 0 /\ pc = "show" /\ ~has_buffer
  BY DEF Init
<1>2. \A l \in Layers : InitialContents[l] \in Images(LayerSizes[l])
  <2> SUFFICES ASSUME NEW l \in Layers PROVE InitialContents[l] \in Images(LayerSizes[l])
    OBVIOUS
  <2>1. \A color \in Colors : Filled(LayerSizes[l], color) \in Images(LayerSizes[l])
    BY DEF Filled, Images
  <2>2. [p \in Points(LayerSizes[l]) |-> IF p \in Arrow THEN "arrow" ELSE "red"]
           \in Images(LayerSizes[l])
    BY DEF Images, Colors
  <2>3. /\ "desktop" \in Colors /\ "console" \in Colors /\ "window" \in Colors /\ "zero" \in Colors
        /\ "green" \in Colors /\ "magenta" \in Colors
    BY DEF Colors
  <2>4. \/ InitialContents[l] = Filled(LayerSizes[l], "desktop")
        \/ InitialContents[l] = Filled(LayerSizes[l], "console")
        \/ InitialContents[l] = Filled(LayerSizes[l], "window")
        \/ InitialContents[l] = Filled(LayerSizes[l], "zero")
        \/ InitialContents[l] = Filled(LayerSizes[l], "green")
        \/ InitialContents[l] = Filled(LayerSizes[l], "magenta")
        \/ InitialContents[l] = [p \in Points(LayerSizes[l]) |-> IF p \in Arrow THEN "arrow" ELSE "red"]
    BY DEF InitialContents, Layers
  <2> QED BY <2>1, <2>2, <2>3, <2>4
<1>3. Filled(screen_size, "firmware") \in Images(screen_size)
  BY DEF Filled, Images, Colors
<1>4. InitialContents = [l \in Layers |-> InitialContents[l]]
  <2> DEFINE Of(l) == CASE l = "bg" -> Filled(LayerSizes[l], "desktop")
                        [] l = "console" -> Filled(LayerSizes[l], "console")
                        [] l = "main_window" -> Filled(LayerSizes[l], "window")
                        [] l = "mouse" -> [p \in Points(LayerSizes[l]) |->
                                             IF p \in Arrow THEN "arrow" ELSE "red"]
                        [] l = "group" -> Filled(LayerSizes[l], "zero")
                        [] l = "group_bg" -> Filled(LayerSizes[l], "green")
                        [] l = "test" -> Filled(LayerSizes[l], "magenta")
  <2>1. InitialContents = [l \in Layers |-> Of(l)]
    BY DEF InitialContents
  <2> HIDE DEF Of
  <2> QED BY <2>1
<1>5. contents = InitialContents /\ pos = LayerPositions
  BY DEF Init
<1>6. IsPicture(Picture)
  BY <1>2, <1>4, <1>5, SizesAssumption DEF Picture, IsPicture
<1>7. StackedTo(layer_stack, 0)
  <2>1. /\ layer_stack = [m \in Managers |-> layer_stack[m]]
        /\ layer_stack["group"] = <<>> /\ layer_stack["screen"] = <<>>
    BY DEF Init, Managers
  <2>2. min(0, 2) = 0 /\ max(0 - 2, 0) = 0
    BY DEF min, max
  <2>3. SubSeq(GroupStack, 1, 0) = <<>> /\ SubSeq(ScreenStack, 1, 0) = <<>>
    BY SubSeqEmpty
  <2> QED BY <2>1, <2>2, <2>3 DEF StackedTo
<1>8. Composing(Picture, 0)
  BY <1>3, <1>5, <1>6, <1>7 DEF Composing, Picture, Init
<1> QED BY <1>1, <1>8 DEF PictureInv

\* An operation turns the picture into r.
LEMMA PictureNext ==
    ASSUME NEW r, IsPicture(r), layer_stack' = r.stack, pos' = r.pos, contents' = r.contents,
           back_buffer' = r.back, screen' = r.screen
    PROVE  Picture' = r
  BY DEF Picture, IsPicture

\* up_down in initialize_graphics keeps the invariant: it shows the next layer.
LEMMA ShowLayerInv == PictureInv /\ ShowLayer => PictureInv'
<1> SUFFICES ASSUME PictureInv, ShowLayer PROVE PictureInv'
  OBVIOUS
<1>1. PICK n \in 0..6 : n = shown
  <2>1. Len(Shows) = 7
    BY DEF Shows
  <2> QED BY <2>1 DEF PictureInv, ShowLayer
<1>2. PICK r : r = up_down(Picture, Shows[n + 1][1], Shows[n + 1][2])
  OBVIOUS
<1>3. ~has_buffer /\ Composing(Picture, n)
  BY <1>1 DEF PictureInv, ShowLayer
<1>4. Composing(r, n + 1)
  <2>1. n \in 0..1 \/ n \in 2..6
    OBVIOUS
  <2> QED BY <1>2, <1>3, <2>1, ShownInGroup, ShownOnScreen
<1>5. /\ layer_stack' = r.stack /\ contents' = r.contents /\ back_buffer' = r.back
      /\ screen' = r.screen /\ shown' = n + 1
      /\ UNCHANGED <<pos, has_buffer, pc, c>>
  BY <1>1, <1>2 DEF ShowLayer, Show
<1>6. r.pos = pos
  BY <1>3, <1>4 DEF Composing, Picture
<1>7. Picture' = r
  BY <1>4, <1>5, <1>6, PictureNext DEF Composing
<1>8. shown' \in 0..7 /\ Composing(Picture', shown')
  BY <1>4, <1>5, <1>7
<1> QED BY <1>3, <1>5, <1>8 DEF PictureInv

\* set_buffer and draw keep it: the whole stack is drawn.
LEMMA SetBufferInv == PictureInv /\ SetBufferAndDraw => PictureInv'
<1> SUFFICES ASSUME PictureInv, SetBufferAndDraw PROVE PictureInv'
  OBVIOUS
<1>1. shown = 7 /\ ~has_buffer /\ Composing(Picture, 7)
  <2>1. Len(Shows) = 7
    BY DEF Shows
  <2> QED BY <2>1 DEF PictureInv, SetBufferAndDraw
<1>2. /\ Picture.stack = layer_stack /\ Picture.pos = pos /\ Picture.contents = contents
      /\ Picture.back = back_buffer /\ Picture.screen = screen
  BY DEF Picture
<1>3. layer_stack["screen"] = ScreenStack /\ layer_stack["group"] = GroupStack
  <2>1. min(7, 2) = 2 /\ max(7 - 2, 0) = 5
    BY DEF min, max
  <2>2. /\ layer_stack["group"] = SubSeq(GroupStack, 1, min(7, 2))
        /\ layer_stack["screen"] = SubSeq(ScreenStack, 1, max(7 - 2, 0))
    BY <1>1, <1>2 DEF Composing, StackedTo
  <2>3. SubSeq(GroupStack, 1, 2) = GroupStack /\ SubSeq(ScreenStack, 1, 5) = ScreenStack
    BY Stacks, SubSeqFull
  <2> QED BY <2>1, <2>2, <2>3
<1>4. PICK back : back = draw_to(Picture, ScreenStack, screen, screen_size)
  OBVIOUS
<1>5. /\ IsPicture(Picture) /\ Picture.pos["bg"] = <<0, 0>> /\ Picture.pos["group_bg"] = <<0, 0>>
      /\ screen \in Images(screen_size) /\ screen_size \in Nat \X Nat
  BY <1>1, <1>2, SizesAssumption DEF Composing
<1>6. back \in Images(screen_size) /\ ShowsStack(Picture, ScreenStack, screen_size, back)
  <2>1. Backed(Picture, ScreenStack, screen_size)
    BY <1>5, StacksBacked
  <2> QED BY <1>4, <1>5, <2>1, Stacks, WholeDrawn
<1>7. PICK r : r = [stack |-> layer_stack, pos |-> pos, contents |-> contents,
                    back |-> back, screen |-> back]
  OBVIOUS
<1>8. IsPicture(r)
  BY <1>2, <1>5, <1>7 DEF IsPicture
<1>9. \A l, p : SameAt(Picture, r, l, p)
  BY <1>2, <1>7, SameLayer
<1>10. ShowsStack(r, ScreenStack, screen_size, back)
  BY <1>6, <1>9, Stacks, ShowsSame
<1>11. ShowsStack(r, GroupStack, LayerSizes["group"], contents["group"])
  <2>1. ShowsStack(Picture, GroupStack, LayerSizes["group"], contents["group"])
    BY <1>1, <1>2, <1>3 DEF Composing
  <2> QED BY <1>9, <2>1, Stacks, ShowsSame
<1>12. Composed(r)
  BY <1>2, <1>3, <1>5, <1>6, <1>7, <1>8, <1>10, <1>11 DEF Composed
<1>13. /\ has_buffer' /\ pc' = "paint" /\ back_buffer' = back /\ screen' = back
       /\ UNCHANGED <<layer_stack, pos, contents, shown, c>>
  BY <1>3, <1>4 DEF SetBufferAndDraw
<1>14. Picture' = r
  BY <1>7, <1>8, <1>13, PictureNext
<1>15. Composed(Picture')
  BY <1>12, <1>14
<1> QED BY <1>13, <1>15 DEF PictureInv

\* An operation of the main loop, when its picture is composed
LEMMA LoopInv ==
    ASSUME PictureInv, has_buffer, NEW r, Composed(r), layer_stack' = r.stack, pos' = r.pos, Show(r),
           UNCHANGED <<has_buffer, shown>>, c' \in Int, pc' \in {"paint", "move", "dispatch"}
    PROVE  PictureInv'
<1>1. Picture' = r
  BY PictureNext DEF Show, Composed
<1>2. Composed(Picture')
  BY <1>1
<1> QED BY <1>2 DEF PictureInv

\* The counter of the main window keeps it: what is painted lies in the damage.
LEMMA PaintCounterInv == PictureInv /\ PaintCounter => PictureInv'
<1> SUFFICES ASSUME PictureInv, PaintCounter PROVE PictureInv'
  OBVIOUS
<1>1. has_buffer /\ Composed(Picture) /\ c \in Int
  BY DEF PictureInv, PaintCounter
<1>2. PICK color : color = IF c' % 2 = 0 THEN "digits0" ELSE "digits1"
  OBVIOUS
<1>3. PICK r : r = PaintedLayer(Picture, "main_window", CounterRect, color)
  OBVIOUS
<1>4. color \in Colors /\ CounterRect \in Rects
  BY <1>2, InputsAssumption DEF Colors
<1>5. Composed(r) /\ r.pos = pos /\ r.stack = layer_stack
  BY <1>1, <1>3, <1>4, PaintedOnScreen DEF Picture
<1>6. c' \in Int
  BY <1>1, CounterAssumption DEF PaintCounter
<1>7. /\ Show(r) /\ UNCHANGED <<layer_stack, pos, has_buffer, shown>> /\ pc' = "move"
  BY <1>2, <1>3 DEF PaintCounter
<1> QED BY <1>1, <1>5, <1>6, <1>7, LoopInv

\* Moving the layer of the group keeps it: the group is redrawn, and then the screen.
LEMMA MoveTestInv == PictureInv /\ MoveTestLayer => PictureInv'
<1> SUFFICES ASSUME PictureInv, MoveTestLayer PROVE PictureInv'
  OBVIOUS
<1>1. has_buffer /\ Composed(Picture) /\ c \in Int
  BY DEF PictureInv, MoveTestLayer
<1>2. PICK y \in Remainders(c) :
         /\ pos' = [pos EXCEPT !["test"] = <<LayerPositions["test"][1], y>>]
         /\ Show(Moved(Picture, "test", <<LayerPositions["test"][1], y>>))
  BY DEF MoveTestLayer
<1>3. PICK q : q = <<LayerPositions["test"][1], y>>
  OBVIOUS
<1>4. q \in Int \X Int
  <2>1. y \in Int
    BY <1>1, InputsAssumption, CounterAssumption DEF Remainders
  <2>2. LayerPositions["test"][1] \in Int
    BY SizesAssumption DEF Layers
  <2> QED BY <1>3, <2>1, <2>2
<1>5. PICK r : r = Moved(Picture, "test", q)
  OBVIOUS
<1>6. Composed(r) /\ r.pos = [pos EXCEPT !["test"] = q] /\ r.stack = layer_stack
  BY <1>1, <1>4, <1>5, MovedInGroup DEF Picture
<1>7. /\ Show(r) /\ pos' = r.pos /\ UNCHANGED <<layer_stack, has_buffer, shown, c>>
      /\ pc' = "dispatch"
  BY <1>2, <1>3, <1>5, <1>6 DEF MoveTestLayer
<1> QED BY <1>1, <1>6, <1>7, LoopInv

\* Text on the console keeps it.
LEMMA PutStringInv ==
    ASSUME PictureInv, NEW rect \in ConsoleRects, PutString(rect)
    PROVE  PictureInv'
<1>1. has_buffer /\ Composed(Picture) /\ c \in Int
  BY DEF PictureInv, PutString
<1>2. PICK color \in {"console", "text"} : Show(PaintedLayer(Picture, "console", rect, color))
  BY DEF PutString
<1>3. PICK r : r = PaintedLayer(Picture, "console", rect, color)
  OBVIOUS
<1>4. color \in Colors /\ rect \in Rects
  BY <1>2, InputsAssumption DEF Colors
<1>5. Composed(r) /\ r.pos = pos /\ r.stack = layer_stack
  BY <1>1, <1>3, <1>4, PaintedOnScreen DEF Picture
<1>6. /\ Show(r) /\ UNCHANGED <<layer_stack, pos, has_buffer, shown, c, pc>> /\ pc = "dispatch"
  BY <1>2, <1>3 DEF PutString
<1> QED BY <1>1, <1>5, <1>6, LoopInv

\* A report of the mouse keeps it: the pointer moves, and the dragged window after it.
LEMMA MouseInv ==
    ASSUME PictureInv, DragInv, NEW left \in BOOLEAN, NEW motion \in Motions,
           mouse_observer(left, motion)
    PROVE  PictureInv'
<1>1. has_buffer /\ Composed(Picture) /\ c \in Int
  BY DEF PictureInv, mouse_observer
<1>2. PICK q : q = mouse_position'
  OBVIOUS
<1>3. q \in Int \X Int
  BY <1>2, SizesAssumption, InputsAssumption
  DEF DragInv, mouse_observer, InScreen, VectorMin, VectorMax, Add, Subtract, min, max
<1>4. PICK pointed : pointed = Moved(Picture, "mouse", q)
  OBVIOUS
<1>5. Composed(pointed) /\ pointed.pos = [pos EXCEPT !["mouse"] = q] /\ pointed.stack = layer_stack
  BY <1>1, <1>3, <1>4, MovedOnScreen DEF Picture
<1>6. UNCHANGED <<layer_stack, has_buffer, shown, c, pc>> /\ pc = "dispatch"
  BY DEF mouse_observer
<1>7. CASE ~(previous_left /\ left /\ dragging_layer_id # NoLayer)
  <2>1. pos' = [pos EXCEPT !["mouse"] = q] /\ Show(pointed)
    BY <1>2, <1>4, <1>7 DEF mouse_observer
  <2> QED BY <1>1, <1>5, <1>6, <2>1, LoopInv
<1>8. CASE previous_left /\ left /\ dragging_layer_id # NoLayer
  <2>1. dragging_layer_id = "main_window"
    BY <1>8 DEF DragInv, DraggedUnderPointer, is_draggable
  <2>2. PICK dragged : dragged = Add(pos["main_window"], MotionMade(mouse_position, q, motion))
    OBVIOUS
  <2>3. dragged \in Int \X Int
    BY <1>3, <2>2 DEF DragInv, Add, MotionMade, Subtract
  <2>4. PICK r : r = Moved(pointed, "main_window", dragged)
    OBVIOUS
  <2>5. /\ Composed(r) /\ r.pos = [pointed.pos EXCEPT !["main_window"] = dragged]
        /\ r.stack = layer_stack
    <3>1. /\ Composed(r) /\ r.pos = [pointed.pos EXCEPT !["main_window"] = dragged]
          /\ r.stack = pointed.stack
      <4>1. PICK l \in {"mouse", "main_window"} : l = "main_window"
        OBVIOUS
      <4>2. has_buffer /\ Composed(pointed) /\ r = Moved(pointed, l, dragged)
        BY <1>1, <1>5, <2>4, <4>1
      <4>3. Composed(r) /\ r.pos = [pointed.pos EXCEPT ![l] = dragged] /\ r.stack = pointed.stack
        BY <2>3, <4>2, MovedOnScreen
      <4> QED BY <4>1, <4>3
    <3> QED BY <1>5, <3>1
  <2>6. /\ pos' = [pos EXCEPT !["mouse"] = q, !["main_window"] = dragged]
        /\ Show(r)
    BY <1>2, <1>4, <1>8, <2>1, <2>2, <2>4 DEF mouse_observer
  <2>7. pos' = r.pos
    BY <1>5, <2>5, <2>6
  <2> QED BY <1>1, <1>6, <2>5, <2>6, <2>7, LoopInv
<1> QED BY <1>7, <1>8

\* What is seen is what the property says.
LEMMA SeenIs ==
    ASSUME NEW m \in Managers, layer_stack[m] \in Seq(Layers), NEW p, NEW color,
           IsSeen(Picture, layer_stack[m], p, color)
    PROVE  color = Seen(m, p, "nothing")
<1> DEFINE stack == layer_stack[m]
           In(k) == Subtract(p, pos[stack[k]])
           opaque == {k \in DOMAIN stack :
                        /\ includes_point(manager_area(Picture, stack[k]), p)
                        /\ contents[stack[k]][In(k)] # TransparentColor(stack[k])}
           front == CHOOSE k \in opaque : \A j \in opaque : j <= k
<1>0. Len(stack) \in Nat /\ DOMAIN stack = 1..Len(stack)
  BY LenProperties
<1>1. Seen(m, p, "nothing") = IF opaque = {} THEN "nothing" ELSE contents[stack[front]][In(front)]
  BY DEF Seen
<1>2. \A k : ColorAt(Picture, stack[k], p) = contents[stack[k]][In(k)]
  BY DEF ColorAt, Picture
<1>3. \A k : k \in opaque <=> k \in 1..Len(stack) /\ Visible(Picture, stack[k], p)
  BY <1>0, <1>2 DEF Visible
<1>4. PICK k \in 1..Len(stack) : Frontmost(Picture, stack, p, k) /\ color = ColorAt(Picture, stack[k], p)
  BY DEF IsSeen
<1> HIDE DEF opaque, In
<1>5. k \in opaque /\ \A j \in opaque : j <= k
  BY <1>0, <1>3, <1>4 DEF Frontmost
<1>6. front \in opaque /\ \A j \in opaque : j <= front
  BY <1>5
<1> HIDE DEF front
<1>7. front = k
  <2>1. front \in Int /\ front <= k /\ k <= front
    BY <1>0, <1>3, <1>5, <1>6
  <2> QED BY <2>1
<1> QED BY <1>1, <1>2, <1>4, <1>5, <1>7

\* The invariant says what the property does.
LEMMA PictureInvShows == PictureInv => ScreenShowsStack
<1> SUFFICES ASSUME PictureInv, has_buffer
             PROVE  /\ \A p \in Points(screen_size) : screen[p] = Seen("screen", p, "nothing")
                    /\ \A p \in Points(LayerSizes["group"]) :
                          contents["group"][p] = Seen("group", p, "nothing")
  BY DEF ScreenShowsStack
<1>1. /\ layer_stack["screen"] = ScreenStack /\ layer_stack["group"] = GroupStack
      /\ back_buffer = screen
      /\ ShowsStack(Picture, ScreenStack, screen_size, back_buffer)
      /\ ShowsStack(Picture, GroupStack, LayerSizes["group"], contents["group"])
  BY DEF PictureInv, Composed, Picture
<1>2. "screen" \in Managers /\ "group" \in Managers
  BY DEF Managers
<1>3. \A p \in Points(screen_size) : IsSeen(Picture, layer_stack["screen"], p, screen[p])
  BY <1>1 DEF ShowsStack
<1>4. \A p \in Points(LayerSizes["group"]) :
         IsSeen(Picture, layer_stack["group"], p, contents["group"][p])
  BY <1>1 DEF ShowsStack
<1> QED BY <1>1, <1>2, <1>3, <1>4, Stacks, SeenIs

\* For screens and layers of any size, at any positions, and for any reports of the mouse,
\* the screen shows the stack of layers after every operation.
THEOREM StackShown == Spec => []ScreenShowsStack
<1>1. PictureInv /\ DragInv /\ [Next]_vars => PictureInv'
  <2> SUFFICES ASSUME PictureInv, DragInv, [Next]_vars PROVE PictureInv'
    OBVIOUS
  <2>1. CASE NextRound
    <3>1. pc = "dispatch" /\ pc' = "paint" /\ UNCHANGED <<layer_stack, pos, pixels, has_buffer, shown, c>>
      BY <2>1 DEF NextRound
    <3>2. Picture' = Picture
      BY <3>1 DEF Picture, pixels
    <3> QED BY <3>1, <3>2 DEF PictureInv
  <2>2. CASE UNCHANGED vars
    <3>1. UNCHANGED <<layer_stack, pos, pixels, has_buffer, pc, shown, c>>
      BY <2>2 DEF vars
    <3>2. Picture' = Picture
      BY <3>1 DEF Picture, pixels
    <3> QED BY <3>1, <3>2 DEF PictureInv
  <2> QED
    BY <2>1, <2>2, ShowLayerInv, SetBufferInv, PaintCounterInv, MoveTestInv, PutStringInv, MouseInv
    DEF Next
<1> QED BY <1>1, InitPictureInv, PictureInvShows, DragInvariant, PTL DEF Spec
=============================================================================
