---------------------------- MODULE MCCompositor ----------------------------
(* A screen of 3 by 3 points with layers of one to nine points.              *)
EXTENDS Compositor

MCScreenSize == <<3, 3>>
MCLayerSizes == [l \in Layers |->
    CASE l = "bg" -> <<3, 3>>
      [] l = "console" -> <<2, 2>>
      [] l \in {"group", "group_bg"} -> <<2, 3>>
      [] l = "main_window" -> <<2, 2>>
      [] l = "mouse" -> <<2, 1>>
      [] l = "test" -> <<1, 2>>]
MCLayerPositions == [l \in Layers |->
    CASE l = "console" -> <<1, 1>> [] l = "main_window" -> <<1, 1>> [] l = "mouse" -> <<1, 0>>
      [] l = "test" -> <<1, 1>> [] OTHER -> <<0, 0>>]
MCArrow == {<<0, 0>>}
MCCounterRect == [left |-> 1, top |-> 1, right |-> 2, bottom |-> 2]
MCConsoleRects == {[left |-> 0, top |-> 1, right |-> 1, bottom |-> 2]}
MCMotions == {<<0, 0>>, <<1, 0>>, <<-2, 0>>, <<-1, 2>>, <<0, -1>>}
=============================================================================
