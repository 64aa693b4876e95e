----------------------------- MODULE VmListView -----------------------------
(***************************************************************************)
(* The drag-and-drop reordering of the manager's VM list, VmListView       *)
(* (src/ui/win32/components/vm_listview.cpp): LVN_BEGINDRAG in            *)
(* HandleNotify, HandleDragMove, HandleDragEnd with the drop marker, and   *)
(* Populate, driven by a user with one mouse button.                       *)
(*                                                                         *)
(* The list control starts a drag (LVN_BEGINDRAG) when the user presses on *)
(* an item and moves.  The handler then captures the mouse for the parent *)
(* window, which forwards WM_MOUSEMOVE to HandleDragMove and WM_LBUTTONUP *)
(* to HandleDragEnd (the contract of vm_listview.h).  Without the capture *)
(* the parent sees the mouse only over its own client area, where the     *)
(* list's hit test finds no item.  Another window may take the capture    *)
(* while the button is held (LoseCapture); the code has no handler for    *)
(* that.  The manager re-populates the list, possibly reordered or with   *)
(* VMs added or removed, between the user's gestures.  A cursor position  *)
(* is abstracted to the list item under it, or to where it is otherwise.  *)
(***************************************************************************)
EXTENDS Integers, Sequences, SequencesExt

CONSTANTS
  Vms,            \* the VM identities the manager may list
  MaxUserSteps,   \* bound on the user's mouse steps
  MaxPopulates    \* bound on the manager's calls of Populate

NoVm == "none"

VARIABLES
  records,        \* the manager's records, as the VMs in list order
  selected,       \* the item the list shows selected, or -1
  dragIndex,      \* drag_index_
  dropMarker,     \* drop_marker_
  dragging,       \* dragging_
  dragImage,      \* drag_image_ is not null
  imagesAlive,    \* drag image lists created and not yet destroyed
  capture,        \* the parent holds the mouse capture ("parent") or not
  held,           \* the user holds the button down
  grabbed,        \* the VM the user's current press started dragging
  drops,          \* history: the drag_drop_cb_ calls
  userSteps, populates

vars == <<records, selected, dragIndex, dropMarker, dragging, dragImage,
          imagesAlive, capture, held, grabbed, drops, userSteps, populates>>

(* Where the cursor is when it is over no list item: the list's empty    *)
(* part, the parent's own area, or another window.                         *)
ListEmpty == -1
ParentArea == -2
Outside == -3
Elsewhere == {ListEmpty, ParentArea, Outside}

(* ListView_HitTest: the item under the cursor, or -1.                     *)
HitTest(where) == IF where < 0 THEN -1 ELSE where

(* The places the cursor can be with the current records.                  *)
Places == (0 .. Len(records) - 1) \cup Elsewhere

Init ==
  /\ records = <<>>
  /\ selected = -1
  /\ dragIndex = -1
  /\ dropMarker = -1
  /\ dragging = FALSE
  /\ dragImage = FALSE
  /\ imagesAlive = 0
  /\ capture = "none"
  /\ held = FALSE
  /\ grabbed = NoVm
  /\ drops = <<>>
  /\ userSteps = 0
  /\ populates = 0

-----------------------------------------------------------------------------
(* Populate(records, selected_index): the item count becomes the number of *)
(* records, every selection is cleared, and selected_index is selected     *)
(* when it names a record.                                                  *)
Populate(recs, sel) ==
  /\ records' = recs
  /\ selected' = IF sel >= 0 /\ sel < Len(recs) THEN sel ELSE -1

(* Mutant of BeginDrag: a drag already under way keeps its drag_index_.   *)
BeginDragKeepsIndex(i) ==
  /\ dragIndex' = IF dragging THEN dragIndex ELSE i
  /\ IF i < 0 \/ i >= Len(records)
       THEN UNCHANGED <<dragImage, imagesAlive, capture, dragging>>
       ELSE /\ dragImage' = TRUE
            /\ imagesAlive' = imagesAlive + 1
            /\ capture' = "parent"
            /\ dragging' = TRUE

(* The LVN_BEGINDRAG case of HandleNotify for item i: an index outside     *)
(* the records only sets drag_index_; otherwise a drag image list is      *)
(* created and the drag begins with the capture on the parent.             *)
BeginDrag(i) ==
  /\ dragIndex' = i
  /\ IF i < 0 \/ i >= Len(records)
       THEN UNCHANGED <<dragImage, imagesAlive, capture, dragging>>
       ELSE /\ dragImage' = TRUE
            /\ imagesAlive' = imagesAlive + 1
            /\ capture' = "parent"
            /\ dragging' = TRUE

(* DrawDropMarker(target) after its ClearDropMarker: the marker moves to  *)
(* target unless it is there already.  ClearDropMarker: no marker.         *)
DrawDropMarker(target) == dropMarker' = target
ClearDropMarker == dropMarker' = -1

(* HandleDragMove: while dragging, the marker follows the item under the  *)
(* cursor, except the dragged item itself.                                  *)
HandleDragMove(target) ==
  \/ /\ ~dragging
     /\ UNCHANGED dropMarker
  \/ /\ dragging
     /\ IF target >= 0 /\ target # dragIndex THEN DrawDropMarker(target)
                                            ELSE ClearDropMarker

(* Mutant of HandleDragEnd: the callback is made for a release on no item. *)
HandleDragEndAnyTarget(target) ==
  \/ /\ ~dragging
     /\ UNCHANGED <<dropMarker, dragImage, imagesAlive, capture, dragging,
                    drops, dragIndex>>
  \/ /\ dragging
     /\ ClearDropMarker
     /\ dragImage' = FALSE
     /\ imagesAlive' = IF dragImage THEN imagesAlive - 1 ELSE imagesAlive
     /\ capture' = "none"
     /\ dragging' = FALSE
     /\ drops' = IF target # dragIndex
                   THEN Append(drops, [from |-> dragIndex, to |-> target,
                                       fromVm |-> IF dragIndex + 1 \in DOMAIN records
                                                    THEN records[dragIndex + 1]
                                                    ELSE NoVm,
                                       grabbed |-> grabbed])
                   ELSE drops
     /\ dragIndex' = -1

(* HandleDragEnd: while dragging, the marker is cleared, the image list   *)
(* destroyed, the capture released, and drag_drop_cb_(drag_index_, drop)  *)
(* is called when the release is on another item.  fromVm and grabbed     *)
(* record which VM the callback's first index names and which VM the      *)
(* user's press took.                                                       *)
HandleDragEnd(target) ==
  \/ /\ ~dragging
     /\ UNCHANGED <<dropMarker, dragImage, imagesAlive, capture, dragging,
                    drops, dragIndex>>
  \/ /\ dragging
     /\ ClearDropMarker
     /\ dragImage' = FALSE
     /\ imagesAlive' = IF dragImage THEN imagesAlive - 1 ELSE imagesAlive
     /\ capture' = "none"
     /\ dragging' = FALSE
     /\ drops' = IF target >= 0 /\ target # dragIndex
                   THEN Append(drops, [from |-> dragIndex, to |-> target,
                                       fromVm |-> IF dragIndex + 1 \in DOMAIN records
                                                    THEN records[dragIndex + 1]
                                                    ELSE NoVm,
                                       grabbed |-> grabbed])
                   ELSE drops
     /\ dragIndex' = -1

-----------------------------------------------------------------------------
(* The user presses on item i and moves: the list sends LVN_BEGINDRAG.   *)
Drag(i) ==
  /\ userSteps < MaxUserSteps /\ ~held
  /\ held' = TRUE
  /\ grabbed' = records[i + 1]
  /\ userSteps' = userSteps + 1
  /\ BeginDrag(i)
  /\ UNCHANGED <<records, selected, dropMarker, drops, populates>>

(* The user presses somewhere without starting a drag.                     *)
Press ==
  /\ userSteps < MaxUserSteps /\ ~held
  /\ held' = TRUE
  /\ grabbed' = NoVm
  /\ userSteps' = userSteps + 1
  /\ UNCHANGED <<records, selected, dragIndex, dropMarker, dragging, dragImage,
                 imagesAlive, capture, drops, populates>>

(* The mouse moves to where: WM_MOUSEMOVE reaches the parent, which calls *)
(* HandleDragMove, when the parent has the capture or the cursor is over  *)
(* the parent's own area.                                                   *)
Move(where) ==
  /\ userSteps < MaxUserSteps
  /\ userSteps' = userSteps + 1
  /\ CASE capture = "parent"  -> HandleDragMove(HitTest(where))
       [] where = ParentArea -> HandleDragMove(-1)
       [] OTHER                -> UNCHANGED dropMarker
  /\ UNCHANGED <<records, selected, dragIndex, dragging, dragImage, imagesAlive,
                 capture, held, grabbed, drops, populates>>

(* The user releases the button at where: WM_LBUTTONUP reaches the parent *)
(* and HandleDragEnd in the same cases.                                    *)
Release(where) ==
  /\ userSteps < MaxUserSteps /\ held
  /\ held' = FALSE
  /\ userSteps' = userSteps + 1
  /\ CASE capture = "parent"  -> HandleDragEnd(HitTest(where))
       [] where = ParentArea -> HandleDragEnd(-1)
       [] OTHER                -> UNCHANGED <<dropMarker, dragImage, imagesAlive,
                                              capture, dragging, drops, dragIndex>>
  /\ UNCHANGED <<records, selected, grabbed, populates>>

(* Another window takes the mouse capture while the button is held.       *)
LoseCapture ==
  /\ userSteps < MaxUserSteps /\ capture = "parent" /\ held
  /\ capture' = "none"
  /\ userSteps' = userSteps + 1
  /\ UNCHANGED <<records, selected, dragIndex, dropMarker, dragging, dragImage,
                 imagesAlive, held, grabbed, drops, populates>>

(* The manager calls Populate with its records: any order of any VMs     *)
(* between gestures (after a reorder, a create or a delete), the same     *)
(* records while the button is held (a state refresh).                     *)
ManagerPopulate(recs, sel) ==
  /\ populates < MaxPopulates
  /\ held => recs = records
  /\ populates' = populates + 1
  /\ Populate(recs, sel)
  /\ UNCHANGED <<dragIndex, dropMarker, dragging, dragImage, imagesAlive,
                 capture, held, grabbed, drops, userSteps>>

Next ==
  \/ \E i \in 0 .. Len(records) - 1 : Drag(i)
  \/ Press
  \/ \E where \in Places : Move(where) \/ Release(where)
  \/ LoseCapture
  \/ \E recs \in SetToAllKPermutations(Vms), sel \in {-1, 0, Cardinality(Vms)} :
       ManagerPopulate(recs, sel)

Spec == Init /\ [][Next]_vars

-----------------------------------------------------------------------------
Drop == [from : Int, to : Int, fromVm : Vms \cup {NoVm}, grabbed : Vms \cup {NoVm}]

TypeOK ==
  /\ records \in Seq(Vms) /\ Len(records) <= Cardinality(Vms)
  /\ selected \in -1 .. Len(records) - 1
  /\ dragIndex \in -1 .. Cardinality(Vms) - 1
  /\ dropMarker \in -1 .. Cardinality(Vms) - 1
  /\ dragging \in BOOLEAN /\ dragImage \in BOOLEAN /\ held \in BOOLEAN
  /\ imagesAlive \in Nat
  /\ capture \in {"none", "parent"}
  /\ grabbed \in Vms \cup {NoVm}
  /\ drops \in Seq(Drop)
  /\ \A k \in DOMAIN drops : drops[k].to \in 0 .. Cardinality(Vms) - 1

(* Every drag_drop_cb_(from, to) moves the VM the user pressed on to start *)
(* the gesture that ends in the drop, and to is another item: drag_index_ *)
(* is never stale, whatever capture was lost, gesture abandoned or list   *)
(* re-populated before (LVN_BEGINDRAG and HandleDragEnd).                  *)
DropMatchesGesture ==
  \A k \in DOMAIN drops :
    /\ drops[k].grabbed # NoVm
    /\ drops[k].fromVm = drops[k].grabbed
    /\ drops[k].from # drops[k].to
====
