------------------------------- MODULE Pixels -------------------------------
(***************************************************************************)
(* Vectors, rectangles and frame buffers (kernel/graphics/primitives.hpp   *)
(* and frame_buffer.cpp).  A vector is a pair <<x, y>>; a frame buffer is  *)
(* an image, the function from its points to their colours.                *)
(***************************************************************************)
EXTENDS Integers

min(a, b) == IF a < b THEN a ELSE b
max(a, b) == IF a < b THEN b ELSE a

Add(v, w) == <<v[1] + w[1], v[2] + w[2]>>
Subtract(v, w) == <<v[1] - w[1], v[2] - w[2]>>
VectorMin(v, w) == <<min(v[1], w[1]), min(v[2], w[2])>>
VectorMax(v, w) == <<max(v[1], w[1]), max(v[2], w[2])>>

\* Rect<int>: right and bottom are the first column and row outside of it.
RectOf(top_left, bottom_right) ==
    [left |-> top_left[1], top |-> top_left[2],
     right |-> bottom_right[1], bottom |-> bottom_right[2]]

Rects == [left : Int, top : Int, right : Int, bottom : Int]

top_left(r) == <<r.left, r.top>>
bottom_right(r) == <<r.right, r.bottom>>
size(r) == Subtract(bottom_right(r), top_left(r))
offset(r, diff) == RectOf(Add(top_left(r), diff), Add(bottom_right(r), diff))

merge(r, s) == RectOf(VectorMin(top_left(r), top_left(s)),
                      VectorMax(bottom_right(r), bottom_right(s)))

cross(r, s) == RectOf(VectorMax(top_left(r), top_left(s)),
                      VectorMin(bottom_right(r), bottom_right(s)))

is_crossing(r, s) == /\ r.left < s.right /\ r.top < s.bottom
                     /\ s.left < r.right /\ s.top < r.bottom

includes(r, s) == /\ r.left <= s.left /\ r.top <= s.top
                  /\ s.right <= r.right /\ s.bottom <= r.bottom

includes_point(r, p) == /\ r.left <= p[1] /\ p[1] < r.right
                        /\ r.top <= p[2] /\ p[2] < r.bottom

-----------------------------------------------------------------------------
Points(extent) == (0..(extent[1] - 1)) \X (0..(extent[2] - 1))
Filled(extent, color) == [p \in Points(extent) |-> color]

\* What drawing into a layer changes: the points of rect get their color.
Painted(image, rect, color) ==
    [p \in DOMAIN image |-> IF includes_point(rect, p) THEN color ELSE image[p]]

decrease_d(v, d) == IF d < 0 THEN v + d ELSE v
increase_d(v, d) == IF d < 0 THEN v - d ELSE v

\* A bug to be told from the code: what is cut off at the left is not skipped in src.
adjust_coords_src_kept(to_size, src_size, to_pos, src_pos, len) ==
    LET len1 == decrease_d(len, src_pos)
        to1  == increase_d(to_pos, src_pos)
        src1 == max(src_pos, 0)
        len2 == decrease_d(len1, to1)
        to2  == max(to1, 0)
    IN  [to |-> to2, src |-> src1, len |-> min(len2, min(to_size - to2, src_size - src1))]

\* adjust_coords along one axis: a stretch of length len, to be copied from
\* src_pos of a buffer of src_size to to_pos of a buffer of to_size, is cut down
\* to what both buffers have.
adjust_coords(to_size, src_size, to_pos, src_pos, len) ==
    LET len1 == decrease_d(len, src_pos)
        to1  == increase_d(to_pos, src_pos)
        src1 == max(src_pos, 0)
        len2 == decrease_d(len1, to1)
        src2 == increase_d(src1, to1)
        to2  == max(to1, 0)
    IN  [to |-> to2, src |-> src2, len |-> min(len2, min(to_size - to2, src_size - src2))]

\* FrameBuffer::copy_from: dst with a part of src copied into it, except for the
\* points of src that have the colour transparent (no colour has the value "none").
copy_from(dst, dst_size, src, src_size, to_pos, src_pos, extent, transparent) ==
    LET x == adjust_coords(dst_size[1], src_size[1], to_pos[1], src_pos[1], extent[1])
        y == adjust_coords(dst_size[2], src_size[2], to_pos[2], src_pos[2], extent[2])
        written == RectOf(<<x.to, y.to>>, <<x.to + x.len, y.to + y.len>>)
        Source(p) == src[<<p[1] - x.to + x.src, p[2] - y.to + y.src>>]
    IN  [p \in DOMAIN dst |-> IF includes_point(written, p) /\ Source(p) # transparent
                              THEN Source(p) ELSE dst[p]]
=============================================================================
