---------------------------- MODULE MCDisplayPath ----------------------------
(* Model values for DisplayPath: the display thread and the state         *)
(* publisher send events beside the IPC thread's console flushes.  The    *)
(* frames are a 2x2 frame whose resource size is left 0 and whose payload *)
(* carries one and a half rows, a 1x1 rectangle inside a 2x2 resource,    *)
(* and a 2x1 rectangle of a 3x1 resource (a resize from and to the        *)
(* others).                                                                 *)
EXTENDS DisplayPath

MCSenders == {"display", "state"}
MCFrames ==
  { [width |-> 2, height |-> 2, resW |-> 0, resH |-> 0, dirtyX |-> 0, dirtyY |-> 0,
     size |-> 12],
    [width |-> 1, height |-> 1, resW |-> 2, resH |-> 2, dirtyX |-> 1, dirtyY |-> 1,
     size |-> 4],
    [width |-> 2, height |-> 1, resW |-> 3, resH |-> 1, dirtyX |-> 1, dirtyY |-> 0,
     size |-> 8] }
=============================================================================
