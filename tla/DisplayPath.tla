----------------------------- MODULE DisplayPath -----------------------------
(***************************************************************************)
(* The display path from the runtime to the manager's panel: the display  *)
(* thread hands a frame to ManagedDisplayPort::SubmitFrame, whose handler  *)
(* (set in the RuntimeControlService constructor) takes an id and sends a *)
(* display.frame event through the IPC service (IpcService); the manager  *)
(* reads the pipe in order and gives each frame to DisplayPanel::          *)
(* UpdateFrame (FrameBlit).  The manager's reader is not in src/; it is    *)
(* taken from the event's description in spec.md (display.frame with its  *)
(* fields and the pixel payload).                                          *)
(***************************************************************************)
EXTENDS IpcService, FrameBlit

CONSTANTS
  Frames          \* the frames the display thread may submit

(* The sender thread that publishes frames.                               *)
DisplaySender == "display"

(* Frames come from the virtio GPU's resource flushes, whose rectangle   *)
(* lies within the resource.                                               *)
ResW(f) == IF f.resW = 0 THEN f.width ELSE f.resW
ResH(f) == IF f.resH = 0 THEN f.height ELSE f.resH
ASSUME /\ DisplaySender \in Senders
       /\ Frames \subseteq Frame
       /\ \A f \in Frames : /\ f.dirtyX + f.width <= ResW(f)
                            /\ f.dirtyY + f.height <= ResH(f)

VARIABLES
  frameOf,        \* the frame each event id was taken for, or NoFrame
  read            \* the wire entries the manager has read

pathVars == <<vars, blitVars, frameOf, read>>

PathTypeOK ==
  /\ TypeOK
  /\ BlitTypeOK
  /\ frameOf \in [0 .. MaxId -> Frames \cup {NoFrame}]
  /\ read \in 0 .. Len(wire)

PathInit ==
  /\ Init
  /\ BlitInit
  /\ frameOf = [i \in 0 .. MaxId |-> NoFrame]
  /\ read = 0

(* ManagedDisplayPort::SubmitFrame: the handler is copied under mutex_ and *)
(* called; it takes request_id = next_event_id_++ for the frame's event.   *)
SubmitFrame(f) ==
  /\ AssignId(DisplaySender)
  /\ frameOf' = [frameOf EXCEPT ![nextId] = f]
  /\ UNCHANGED <<blitVars, read>>

(* The manager reads the next event off the pipe; a display frame goes to *)
(* DisplayPanel::UpdateFrame.                                              *)
ManagerRead ==
  /\ read < Len(wire)
  /\ read' = read + 1
  /\ LET e == wire[read + 1] IN
       IF e.whole /\ frameOf[e.id] # NoFrame
         THEN UpdateFrame(frameOf[e.id])
         ELSE UNCHANGED blitVars
  /\ UNCHANGED <<vars, frameOf>>

PathNext ==
  \/ /\ \/ ServiceNext
        \/ \E s \in Senders \ {DisplaySender} : AssignId(s)
     /\ UNCHANGED <<blitVars, frameOf, read>>
  \/ \E f \in Frames : SubmitFrame(f)
  \/ ManagerRead

(* The service's threads keep running as in IpcService; the manager need  *)
(* not connect, but once connected its reader keeps reading the pipe.     *)
PathSpec == PathInit /\ [][PathNext]_pathVars /\ ThreadFairness
            /\ WF_pathVars(ManagerRead)

-----------------------------------------------------------------------------
(* The panel shows each frame where the guest drew it: the memcpy calls   *)
(* of UpdateFrame's latest blit put every row of the dirty rectangle that *)
(* the payload carries at (dirty_x, dirty_y + row) of the resource, and   *)
(* nothing else, across resizes between frames of different resources.   *)
BlitPlacesRect == shownFrame # NoFrame => lastBlit = Placed(shownFrame)
=============================================================================
