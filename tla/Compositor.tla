----------------------------- MODULE Compositor -----------------------------
(***************************************************************************)
(* The screen: layers and their managers (kernel/graphics/layer.cpp,       *)
(* layer_manager.cpp, buffer_layer.cpp, group_layer.cpp, painter.cpp), the *)
(* scene that initialize_graphics builds from them (graphics.cpp), and     *)
(* what the main loop and the mouse do to it (kernel/main.cpp).            *)
(*                                                                         *)
(* The screen's manager is double buffered.  The group layer holds a       *)
(* manager of its own, whose buffer is the content of the group layer.     *)
(* Only the main thread draws, so an operation is one step.                *)
(***************************************************************************)
EXTENDS Pixels, Sequences, SequencesExt

CONSTANTS
    screen_size,    \* of the frame buffer
    LayerSizes,     \* the size of every layer
    LayerPositions, \* where initialize_graphics moves it
    Arrow,          \* the points of the mouse layer that are not transparent
    CounterRect,    \* where the main window shows the counter
    ConsoleRects,   \* the damage that printing to the console may cause
    TestRange,      \* the test layer moves by c % TestRange
    CounterBits,    \* width of the counter c
    Motions         \* displacements that a mouse report may carry

Layers == {"bg", "console", "group", "main_window", "mouse", "group_bg", "test"}
Managers == {"screen", "group"}

ManagerOf(l) == IF l \in {"group_bg", "test"} THEN "group" ELSE "screen"

\* transparent_color_ of a layer
TransparentColor(l) == CASE l = "mouse" -> "red" [] l = "group" -> "green" [] OTHER -> "none"
has_transparency(l) == TransparentColor(l) # "none"
is_draggable(l) == l = "main_window"

NoLayer == "no_layer"   \* nullptr, and dragging_layer_id without a value

Colors == {"firmware", "zero", "desktop", "console", "text", "window", "digits0", "digits1",
           "arrow", "red", "green", "magenta"}

\* The layers shown at boot, in the order of the calls of up_down, with their heights
Shows == <<<<"group_bg", 0>>, <<"test", 1>>, <<"bg", 0>>, <<"console", 1>>, <<"group", 2>>,
           <<"main_window", 3>>, <<"mouse", 4>>>>

ASSUME SizesAssumption ==
    /\ screen_size \in (Nat \ {0}) \X (Nat \ {0})
    /\ LayerSizes \in [Layers -> Nat \X Nat]
    /\ LayerPositions \in [Layers -> Int \X Int]
    /\ LayerSizes["bg"] = screen_size /\ LayerPositions["bg"] = <<0, 0>>
    /\ LayerSizes["group_bg"] = LayerSizes["group"] /\ LayerPositions["group_bg"] = <<0, 0>>
ASSUME InputsAssumption ==
    /\ CounterRect \in Rects /\ ConsoleRects \subseteq Rects
    /\ Motions \subseteq Int \X Int
    /\ TestRange \in Nat \ {0} /\ CounterBits \in Nat \ {0}

VARIABLES
    layer_stack,     \* of each manager, backmost layer first
    pos,             \* pos_ of every layer
    contents,        \* buffer_ of every layer
    back_buffer, screen,
    has_buffer,      \* the screen's manager has been given its buffer
    pc, shown, c,
    dragging_layer_id, previous_left, mouse_position

pixels == <<contents, back_buffer, screen>>
mouse == <<dragging_layer_id, previous_left, mouse_position>>
vars == <<layer_stack, pos, pixels, has_buffer, pc, shown, c, mouse>>

InitialContents ==
    [l \in Layers |->
        CASE l = "bg" -> Filled(LayerSizes[l], "desktop")
          [] l = "console" -> Filled(LayerSizes[l], "console")
          [] l = "main_window" -> Filled(LayerSizes[l], "window")
          [] l = "mouse" -> [p \in Points(LayerSizes[l]) |->
                                IF p \in Arrow THEN "arrow" ELSE "red"]
          [] l = "group" -> Filled(LayerSizes[l], "zero")
          [] l = "group_bg" -> Filled(LayerSizes[l], "green")
          [] l = "test" -> Filled(LayerSizes[l], "magenta")]

Init ==
    /\ layer_stack = [m \in Managers |-> <<>>]
    /\ pos = LayerPositions
    /\ contents = InitialContents
    /\ screen = Filled(screen_size, "firmware") /\ back_buffer = screen
    /\ has_buffer = FALSE
    /\ pc = "show" /\ shown = 0 /\ c = 0
    /\ dragging_layer_id = NoLayer /\ previous_left = FALSE /\ mouse_position = <<0, 0>>

-----------------------------------------------------------------------------
(* Drawing.  A picture is what drawing reads and writes: the stacks, the    *)
(* positions, the contents and the two buffers of the screen.               *)

Picture == [stack |-> layer_stack, pos |-> pos, contents |-> contents,
            back |-> back_buffer, screen |-> screen]

manager_area(pic, l) == RectOf(pic.pos[l], Add(pic.pos[l], LayerSizes[l]))

\* BufferLayer::draw_to and GroupLayer::draw_to, the whole layer
draw_layer_to(pic, l, dst, dst_size) ==
    copy_from(dst, dst_size, pic.contents[l], LayerSizes[l], pic.pos[l], <<0, 0>>,
              LayerSizes[l], TransparentColor(l))

\* BufferLayer::draw_to and GroupLayer::draw_to, what of the layer lies in damage
draw_damaged_layer_to(pic, l, dst, dst_size, damage) ==
    LET area == manager_area(pic, l)
        part == cross(damage, area)
    IN  IF ~is_crossing(damage, area)
        THEN dst
        ELSE copy_from(dst, dst_size, pic.contents[l], LayerSizes[l], top_left(part),
                       Subtract(top_left(part), pic.pos[l]), size(part), TransparentColor(l))

\* The opaque layers that cover rect: nothing behind the frontmost of them is seen.
Covers(pic, stack, rect) ==
    {k \in DOMAIN stack : ~has_transparency(stack[k]) /\ includes(manager_area(pic, stack[k]), rect)}

FirstDrawn(pic, stack, rect) ==
    LET covers == Covers(pic, stack, rect)
    IN  IF covers = {} THEN 1 ELSE CHOOSE k \in covers : \A j \in covers : j <= k

draw_damage_to(pic, stack, dst, dst_size, id, rect) ==
    LET drawn == SubSeq(stack, FirstDrawn(pic, stack, rect), Len(stack))
        image[k \in 0..Len(drawn)] ==    \* dst when the first k of them have been drawn
            IF k = 0 THEN dst
            ELSE draw_damaged_layer_to(pic, drawn[k], image[k - 1], dst_size, rect)
    IN  IF Contains(drawn, id) THEN image[Len(drawn)] ELSE dst

\* LayerManager::draw_to
draw_to(pic, stack, dst, dst_size) ==
    LET image[k \in 0..Len(stack)] ==
            IF k = 0 THEN dst ELSE draw_layer_to(pic, stack[k], image[k - 1], dst_size)
    IN  image[Len(stack)]

merge_rects(rects) ==
    LET merged[k \in DOMAIN rects] ==
            IF k = 1 THEN rects[1] ELSE merge(merged[k - 1], rects[k])
    IN  merged[Len(rects)]

\* DoubleBufferedLayerManager::damage
screen_damage(pic, id, rects) ==
    LET rect == merge_rects(rects)
        back == draw_damage_to(pic, pic.stack["screen"], pic.back, screen_size, id, rect)
    IN  IF ~has_buffer \/ rects = <<>>
        THEN pic
        ELSE [pic EXCEPT
                !.back = back,
                !.screen = copy_from(pic.screen, screen_size, back, screen_size, top_left(rect),
                                     top_left(rect), size(rect), "none")]

\* Layer::damage of the group layer, which is the parent of the group's manager
parent_damage(pic, rects) ==
    screen_damage(pic, "group", [k \in DOMAIN rects |-> offset(rects[k], pic.pos["group"])])

\* LayerManager::damage
group_damage(pic, id, rects) ==
    LET rect == merge_rects(rects)
        buffer == draw_damage_to(pic, pic.stack["group"], pic.contents["group"],
                                 LayerSizes["group"], id, rect)
    IN  IF rects = <<>>
        THEN pic
        ELSE parent_damage([pic EXCEPT !.contents["group"] = buffer], rects)

manager_damage(pic, id, rects) ==
    IF ManagerOf(id) = "group" THEN group_damage(pic, id, rects)
                               ELSE screen_damage(pic, id, rects)

\* Layer::damage
layer_damage(pic, l, rects) ==
    manager_damage(pic, l, [k \in DOMAIN rects |-> offset(rects[k], pic.pos[l])])

\* Layer::move, when the layer's new position is p
Moved(pic, l, p) ==
    LET after == [pic EXCEPT !.pos[l] = p]
    IN  manager_damage(after, l, <<manager_area(pic, l), manager_area(after, l)>>)

\* A Painter that draws rect of a layer in one colour, until its destruction
PaintedLayer(pic, l, rect, color) ==
    layer_damage([pic EXCEPT !.contents[l] = Painted(@, rect, color)], l, <<rect>>)

\* LayerManager::up_down for a height that is not negative
up_down(pic, id, new_height) ==
    LET stack  == pic.stack[ManagerOf(id)]
        others == RemoveFirst(stack, id)
        height == min(new_height, Len(others))
        new    == InsertAt(others, height + 1, id)
        raised == [pic EXCEPT !.stack[ManagerOf(id)] = new]
    IN  manager_damage(raised, id, <<manager_area(raised, id)>>)

\* The picture's buffers become the state's.
Show(pic) == contents' = pic.contents /\ back_buffer' = pic.back /\ screen' = pic.screen

-----------------------------------------------------------------------------
(* initialize_graphics, from the first call of up_down                      *)

ShowLayer ==
    /\ pc = "show" /\ shown < Len(Shows)
    /\ LET pic == up_down(Picture, Shows[shown + 1][1], Shows[shown + 1][2])
       IN  layer_stack' = pic.stack /\ Show(pic)
    /\ shown' = shown + 1
    /\ UNCHANGED <<pos, has_buffer, pc, c, mouse>>

\* DoubleBufferedLayerManager::set_buffer and draw
SetBufferAndDraw ==
    /\ pc = "show" /\ shown = Len(Shows)
    /\ has_buffer' = TRUE
    /\ back_buffer' = draw_to(Picture, layer_stack["screen"], screen, screen_size)
    /\ screen' = back_buffer'
    /\ pc' = "paint"
    /\ UNCHANGED <<layer_stack, pos, contents, shown, c, mouse>>

-----------------------------------------------------------------------------
(* The main loop                                                            *)

Counter == 2 ^ CounterBits
ASSUME CounterAssumption == Counter \in Nat \ {0}

PaintCounter ==
    /\ pc = "paint"
    /\ c' = (c + 1) % Counter
    /\ Show(PaintedLayer(Picture, "main_window", CounterRect,
                         IF c' % 2 = 0 THEN "digits0" ELSE "digits1"))
    /\ pc' = "move"
    /\ UNCHANGED <<layer_stack, pos, has_buffer, shown, mouse>>

\* c % TestRange.  c is a signed int that is only ever incremented: once it overflows,
\* the build may take the remainder of a negative number or of an unsigned one.
Remainders(n) ==
    IF n < Counter \div 2
    THEN {n % TestRange}
    ELSE {n % TestRange, -((Counter - n) % TestRange)}

MoveTestLayer ==
    /\ pc = "move"
    /\ \E y \in Remainders(c) :
          LET p == <<LayerPositions["test"][1], y>>
          IN  pos' = [pos EXCEPT !["test"] = p] /\ Show(Moved(Picture, "test", p))
    /\ pc' = "dispatch"
    /\ UNCHANGED <<layer_stack, has_buffer, shown, c, mouse>>

\* Something is logged to the console.
PutString(rect) ==
    /\ pc = "dispatch"
    /\ \E color \in {"console", "text"} : Show(PaintedLayer(Picture, "console", rect, color))
    /\ UNCHANGED <<layer_stack, pos, has_buffer, pc, shown, c, mouse>>

\* The frontmost layer at p, other than exclude_id: a set of one layer, or empty for nullptr
find_layer_by_position(p, exclude_id) ==
    LET stack == layer_stack["screen"]
        hits  == {k \in DOMAIN stack : /\ stack[k] # exclude_id
                                       /\ includes_point(manager_area(Picture, stack[k]), p)}
    IN  {stack[k] : k \in {h \in hits : \A j \in hits : j <= h}}

InScreen(p) == VectorMin(VectorMax(p, <<0, 0>>), Subtract(screen_size, <<1, 1>>))

\* A bug to be told from the code: the window follows the motion, not the pointer.
MotionReported(old, new, motion) == motion

\* pos_diff
MotionMade(old, new, motion) == Subtract(new, old)

\* The pointer moves, and with it a layer that is being dragged.
mouse_observer(left, motion) ==
    /\ pc = "dispatch"
    /\ mouse_position' = InScreen(Add(mouse_position, motion))
    /\ LET pointed == Moved(Picture, "mouse", mouse_position')
           dragged == Add(pos[dragging_layer_id],
                          MotionMade(mouse_position, mouse_position', motion))
       IN  IF previous_left /\ left /\ dragging_layer_id # NoLayer
           THEN /\ pos' = [pos EXCEPT !["mouse"] = mouse_position',
                                     ![dragging_layer_id] = dragged]
                /\ Show(Moved(pointed, dragging_layer_id, dragged))
           ELSE /\ pos' = [pos EXCEPT !["mouse"] = mouse_position']
                /\ Show(pointed)
    /\ \/ /\ ~previous_left /\ left    \* a drag begins, if the layer can be dragged
          /\ dragging_layer_id' \in find_layer_by_position(mouse_position', "mouse")
          /\ is_draggable(dragging_layer_id')
       \/ /\ ~previous_left /\ left
          /\ ~\E l \in find_layer_by_position(mouse_position', "mouse") : is_draggable(l)
          /\ UNCHANGED dragging_layer_id
       \/ /\ previous_left /\ ~left    \* a drag ends
          /\ dragging_layer_id' = NoLayer
       \/ /\ previous_left = left
          /\ UNCHANGED dragging_layer_id
    /\ previous_left' = left
    /\ UNCHANGED <<layer_stack, has_buffer, pc, shown, c>>

\* The loop goes on to the next round.
NextRound ==
    /\ pc = "dispatch" /\ pc' = "paint"
    /\ UNCHANGED <<layer_stack, pos, pixels, has_buffer, shown, c, mouse>>

Next ==
    \/ ShowLayer \/ SetBufferAndDraw
    \/ PaintCounter \/ MoveTestLayer \/ NextRound
    \/ \E rect \in ConsoleRects : PutString(rect)
    \/ \E left \in BOOLEAN, motion \in Motions : mouse_observer(left, motion)

Spec == Init /\ [][Next]_vars

-----------------------------------------------------------------------------
(* Properties                                                               *)

\* What should be seen at p of a manager: the colour of the frontmost layer that
\* has one there, and what was there before where no layer has.
Seen(m, p, before) ==
    LET stack == layer_stack[m]
        In(k) == Subtract(p, pos[stack[k]])
        opaque == {k \in DOMAIN stack :
                     /\ includes_point(manager_area(Picture, stack[k]), p)
                     /\ contents[stack[k]][In(k)] # TransparentColor(stack[k])}
        front == CHOOSE k \in opaque : \A j \in opaque : j <= k
    IN  IF opaque = {} THEN before ELSE contents[stack[front]][In(front)]

\* After every operation the screen shows exactly the stack of layers, although
\* each operation redraws only the layers in front of a cover and only the
\* rectangle it damaged (LayerManager::draw_damage_to, DoubleBuffered...::damage).
\* The group layer's content shows the group's stack in the same way.
ScreenShowsStack ==
    has_buffer =>
        /\ \A p \in Points(screen_size) : screen[p] = Seen("screen", p, "nothing")
        /\ \A p \in Points(LayerSizes["group"]) :
              contents["group"][p] = Seen("group", p, "nothing")

\* A layer that is being dragged stays under the pointer, however far the mouse is
\* moved beyond the edges of the screen, and is let go with the button
\* (mouse_observer moves it by the pointer's own displacement).
DraggedUnderPointer ==
    dragging_layer_id # NoLayer =>
        /\ previous_left
        /\ is_draggable(dragging_layer_id)
        /\ includes_point(manager_area(Picture, dragging_layer_id), mouse_position)
=============================================================================
