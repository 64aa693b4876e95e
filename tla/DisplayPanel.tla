---------------------------- MODULE DisplayPanel ----------------------------
(***************************************************************************)
(* The display panel's input capture, DisplayPanel::WndProc, HandleKey and *)
(* HandleMouse (src/ui/win32/win32_display_panel.cpp), driven by a user    *)
(* who presses and releases keys and mouse buttons and moves the focus.    *)
(*                                                                         *)
(* Keys and buttons are the physical ones the user holds.  A key message   *)
(* reaches the panel only while it has the keyboard focus; a mouse message *)
(* reaches it whenever the cursor is over it.  GetKeyState reports the     *)
(* physical state of the other modifier.  The panel hands key and pointer  *)
(* events to the callbacks its owner installed, KeyCallback and            *)
(* PointerCallback, which turn them into messages on the pipe `out`.      *)
(* Pointer coordinates are left out: the properties are about which keys  *)
(* and buttons the guest sees held.                                        *)
(***************************************************************************)
EXTENDS Naturals, Sequences, FiniteSets, KeyMap

CONSTANTS
  Keys,               \* the physical keys, each as the key message it sends
  Buttons,            \* the mouse button bits: 1 (left), 2 (right), 4 (middle)
  MaxUserSteps,       \* bound on the user's key, button and focus steps
  KeyCallback(_, _),  \* key_cb_(evdev, pressed) as a message on the pipe
  PointerCallback(_)  \* pointer_cb_(x, y, buttons) as a message on the pipe

ASSUME Keys \subseteq [vk : Nat, ext : BOOLEAN, sc : Nat] /\ 1 \in Buttons

VARIABLES
  captured,       \* captured_
  mouseButtons,   \* mouse_buttons_, as the set of its bits
  focused,        \* the panel has the keyboard focus
  keysHeld,       \* the keys the user holds down
  buttonsHeld,    \* the mouse buttons the user holds down
  userSteps,      \* the number of user steps taken
  keysSent,       \* history: the key_cb_ calls, in order
  out             \* the messages the callbacks have put on the pipe

panelVars == <<captured, mouseButtons, focused, keysHeld, buttonsHeld,
               userSteps, keysSent>>

(* The evdev codes of a set of keys (KeyMap's KeyCode).                    *)
Evdev(ks) == {KeyCode(k) : k \in ks}

(* The keys GetKeyState(VK_CONTROL) and GetKeyState(VK_MENU) report: either *)
(* Ctrl, either Alt.                                                        *)
IsCtrl(k) == Normalize(k) \in {VK_LCONTROL, VK_RCONTROL}
IsAlt(k) == Normalize(k) \in {VK_LMENU, VK_RMENU}

Init ==
  /\ captured = FALSE
  /\ mouseButtons = {}
  /\ focused \in BOOLEAN
  /\ keysHeld = {}
  /\ buttonsHeld = {}
  /\ userSteps = 0
  /\ keysSent = <<>>

(* The sum of a set of button bits, the value of mouse_buttons_.          *)
RECURSIVE BitSum(_)
BitSum(bs) == IF bs = {} THEN 0
              ELSE LET b == CHOOSE x \in bs : TRUE IN b + BitSum(bs \ {b})

-----------------------------------------------------------------------------
(* The Ctrl+Alt check of HandleKey, made on wParam before the left/right *)
(* step: a press of VK_MENU, VK_LMENU or VK_RMENU while GetKeyState      *)
(* reports Ctrl down, or of a Ctrl code while it reports Alt down.        *)
ReleaseCombo(pressed, k, held) ==
  /\ pressed
  /\ \/ k.vk \in {VK_MENU, VK_LMENU, VK_RMENU} /\ \E h \in held : IsCtrl(h)
     \/ k.vk \in {VK_CONTROL, VK_LCONTROL, VK_RCONTROL} /\ \E h \in held : IsAlt(h)

(* DisplayPanel::HandleKey for a key message of key k, a press when        *)
(* pressed.  held is the set of keys GetKeyState reports down.  Ctrl+Alt, *)
(* in either order, releases the capture and the second key goes nowhere; *)
(* every other key is mapped by KeyCode and handed to key_cb_ unless its  *)
(* code is 0.                                                               *)
HandleKey(pressed, k, held) ==
  \/ /\ ~captured
     /\ UNCHANGED <<captured, keysSent, out>>
  \/ /\ captured
     /\ ReleaseCombo(pressed, k, held)
     /\ captured' = FALSE
     /\ UNCHANGED <<keysSent, out>>
  \/ /\ captured
     /\ ~ReleaseCombo(pressed, k, held)
     /\ LET code == KeyCode(k) IN
          IF code # 0
            THEN /\ keysSent' = Append(keysSent, [code |-> code, pressed |-> pressed])
                 /\ out' = Append(out, KeyCallback(code, pressed))
            ELSE UNCHANGED <<keysSent, out>>
     /\ UNCHANGED captured

(* DisplayPanel::HandleMouse for message msg: a left click on a panel that *)
(* is not captured takes the capture and the focus (SetFocus) and is       *)
(* swallowed; otherwise, while captured, the button bits are updated and   *)
(* the pointer callback gets them.                                         *)
HandleMouse(msg) ==
  \/ /\ ~captured /\ msg = [b |-> 1, down |-> TRUE]
     /\ captured' = TRUE
     /\ focused' = TRUE
     /\ UNCHANGED <<mouseButtons, out>>
  \/ /\ ~captured /\ msg # [b |-> 1, down |-> TRUE]
     /\ UNCHANGED <<captured, focused, mouseButtons, out>>
  \/ /\ captured
     /\ LET mb == CASE msg.b = 0 -> mouseButtons
                    [] msg.down  -> mouseButtons \cup {msg.b}
                    [] OTHER     -> mouseButtons \ {msg.b}
        IN  /\ mouseButtons' = mb
            /\ out' = Append(out, PointerCallback(BitSum(mb)))
     /\ UNCHANGED <<captured, focused>>

-----------------------------------------------------------------------------
(* The user presses (down) or releases key k; WndProc passes the          *)
(* WM_KEYDOWN, WM_SYSKEYDOWN, WM_KEYUP or WM_SYSKEYUP to HandleKey when  *)
(* the panel has the focus.                                                *)
Key(k, down) ==
  /\ userSteps < MaxUserSteps
  /\ down = (k \notin keysHeld)
  /\ keysHeld' = IF down THEN keysHeld \cup {k} ELSE keysHeld \ {k}
  /\ userSteps' = userSteps + 1
  /\ IF focused THEN HandleKey(down, k, keysHeld \ {k})
                ELSE UNCHANGED <<captured, keysSent, out>>
  /\ UNCHANGED <<mouseButtons, focused, buttonsHeld>>

(* The user presses or releases mouse button b (b = 0: a mouse move);     *)
(* WndProc passes the button or WM_MOUSEMOVE message to HandleMouse.       *)
Mouse(b, down) ==
  /\ userSteps < MaxUserSteps
  /\ b # 0 => down = (b \notin buttonsHeld)
  /\ b = 0 => ~down
  /\ buttonsHeld' = CASE b = 0 -> buttonsHeld
                      [] down  -> buttonsHeld \cup {b}
                      [] OTHER -> buttonsHeld \ {b}
  /\ userSteps' = userSteps + 1
  /\ HandleMouse([b |-> b, down |-> down])
  /\ UNCHANGED <<keysHeld, keysSent>>

(* The focus moves to another window: WM_KILLFOCUS drops the capture and *)
(* clears mouse_buttons_.  Nothing is sent to the guest.                  *)
KillFocus ==
  /\ userSteps < MaxUserSteps
  /\ focused
  /\ focused' = FALSE
  /\ captured' = FALSE
  /\ mouseButtons' = {}
  /\ userSteps' = userSteps + 1
  /\ UNCHANGED <<keysHeld, buttonsHeld, keysSent, out>>

(* The focus comes back without a click (WM_SETFOCUS is not handled).     *)
SetFocus ==
  /\ userSteps < MaxUserSteps
  /\ ~focused
  /\ focused' = TRUE
  /\ userSteps' = userSteps + 1
  /\ UNCHANGED <<captured, mouseButtons, keysHeld, buttonsHeld, keysSent, out>>

Next ==
  \/ \E k \in Keys, down \in BOOLEAN : Key(k, down)
  \/ \E b \in Buttons \cup {0}, down \in BOOLEAN : Mouse(b, down)
  \/ KillFocus
  \/ SetFocus
=============================================================================
