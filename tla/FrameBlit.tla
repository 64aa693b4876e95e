------------------------------ MODULE FrameBlit ------------------------------
(***************************************************************************)
(* DisplayPanel::UpdateFrame (src/ui/win32/win32_display_panel.cpp): the   *)
(* manager's copy of a display frame into the panel's framebuffer.         *)
(*                                                                         *)
(* A frame is a record of the display.frame fields the code reads (width, *)
(* height, resource_width, resource_height, dirty_x, dirty_y) and the      *)
(* byte length of its pixel payload.  The framebuffer is abstracted to its *)
(* dimensions and to the memcpy calls of the latest blit, each a record    *)
(* [dst, src, len] of byte offsets into framebuffer_ and frame.pixels.    *)
(* The frames of a model keep every product below 2^31, so the uint32_t   *)
(* arithmetic of the code does not wrap and is written as plain integers. *)
(***************************************************************************)
EXTENDS Naturals, FiniteSets

Frame == [width : Nat, height : Nat, resW : Nat, resH : Nat,
          dirtyX : Nat, dirtyY : Nat, size : Nat]
NoFrame == [width |-> 0, height |-> 0, resW |-> 0, resH |-> 0,
            dirtyX |-> 0, dirtyY |-> 0, size |-> 0]
Copy == [dst : Nat, src : Nat, len : Nat]

VARIABLES
  fbWidth,      \* fb_width_
  fbHeight,     \* fb_height_
  lastBlit,     \* the memcpy calls of the latest UpdateFrame
  shownFrame    \* history: the frame of the latest UpdateFrame, or NoFrame

blitVars == <<fbWidth, fbHeight, lastBlit, shownFrame>>

BlitTypeOK ==
  /\ fbWidth \in Nat
  /\ fbHeight \in Nat
  /\ lastBlit \subseteq Copy
  /\ shownFrame \in Frame

BlitInit ==
  /\ fbWidth = 0
  /\ fbHeight = 0
  /\ lastBlit = {}
  /\ shownFrame = NoFrame

(* framebuffer_.size() for the given dimensions: resize(rw * rh * 4) runs *)
(* whenever they change, and the initial buffer is empty.                 *)
FbBytes(w, h) == w * h * 4

(* The row loop of UpdateFrame into a framebuffer `stride` bytes wide and *)
(* `bytes` long: row r is copied when neither it nor an earlier row fails *)
(* the two bounds checks, which end the loop with break.                  *)
RowCopies(f, stride, bytes) ==
  LET dw == f.width
      Row(r) == [dst |-> (f.dirtyY + r) * stride + f.dirtyX * 4,
                 src |-> r * (dw * 4), len |-> dw * 4]
      Fits(r) == /\ Row(r).src + dw * 4 <= f.size
                 /\ Row(r).dst + dw * 4 <= bytes
  IN  {Row(r) : r \in {q \in 0 .. f.height - 1 : \A p \in 0 .. q : Fits(p)}}

(* Mutant of UpdateFrame: the destination stride is taken from the dirty *)
(* rectangle's width instead of the framebuffer's.                         *)
UpdateFrameRectStride(f) ==
  LET rw == IF f.resW = 0 THEN f.width ELSE f.resW
      rh == IF f.resH = 0 THEN f.height ELSE f.resH
  IN  /\ fbWidth' = rw
      /\ fbHeight' = rh
      /\ lastBlit' = RowCopies(f, f.width * 4, FbBytes(rw, rh))
      /\ shownFrame' = f

(* UpdateFrame under fb_mutex_: a zero resource dimension falls back to   *)
(* the frame's; the framebuffer is resized when the dimensions change,     *)
(* and the dirty rectangle is then copied row by row with dst_stride =    *)
(* fb_width_ * 4.  InvalidateRect only schedules a repaint.                *)
UpdateFrame(f) ==
  LET rw == IF f.resW = 0 THEN f.width ELSE f.resW
      rh == IF f.resH = 0 THEN f.height ELSE f.resH
  IN  /\ fbWidth' = rw
      /\ fbHeight' = rh
      /\ lastBlit' = RowCopies(f, rw * 4, FbBytes(rw, rh))
      /\ shownFrame' = f

-----------------------------------------------------------------------------
(* Where the rows of a frame belong: the dirty rectangle placed at        *)
(* (dirty_x, dirty_y) in a framebuffer of the frame's resource size, each *)
(* row that the payload carries whole copied from its own offset.          *)
Placed(f) ==
  LET rw == IF f.resW = 0 THEN f.width ELSE f.resW
      dw == f.width
  IN  {[dst |-> ((f.dirtyY + r) * rw + f.dirtyX) * 4, src |-> r * dw * 4,
        len |-> dw * 4] : r \in {q \in 0 .. f.height - 1 : (q + 1) * dw * 4 <= f.size}}
=============================================================================
