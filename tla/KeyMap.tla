------------------------------- MODULE KeyMap -------------------------------
(***************************************************************************)
(* The translation of a Win32 key message into a Linux evdev key code:    *)
(* the left/right step of DisplayPanel::HandleKey                          *)
(* (src/ui/win32/win32_display_panel.cpp), which turns the generic        *)
(* VK_CONTROL, VK_MENU and VK_SHIFT into a side-specific code from the    *)
(* extended bit and the scan code of lParam, and VkToEvdev               *)
(* (src/ui/win32/vk_to_evdev.h), a first-match search of the table kMap.  *)
(*                                                                         *)
(* A key message is a record: vk (wParam), ext (bit 24 of lParam) and sc  *)
(* (bits 16..23 of lParam).  Virtual-key codes are the values of the       *)
(* Windows headers; evdev codes those of the evdev namespace of the file.  *)
(***************************************************************************)
EXTENDS Naturals, Sequences, SequencesExt

(* The Windows virtual-key codes HandleKey and the table name.             *)
VK_SHIFT == 16
VK_CONTROL == 17
VK_MENU == 18
VK_LSHIFT == 160
VK_RSHIFT == 161
VK_LCONTROL == 162
VK_RCONTROL == 163
VK_LMENU == 164
VK_RMENU == 165

(* The entries of a run of kMap whose evdev codes are consecutive, the    *)
(* first of them `first`.                                                   *)
Consecutive(vks, first) == [i \in 1 .. Len(vks) |-> <<vks[i], first + i - 1>>]

(* kMap in the order of its entries, each <<vk, evdev>>.  Its first 83    *)
(* entries, Escape to the keypad's decimal point, carry KEY_ESC (1) to    *)
(* KEY_KPDOT (83) in order: digits '1'..'0', the letter rows Q..P, A..L   *)
(* and Z..M with their punctuation, the left modifiers, F1..F10 and the   *)
(* keypad.  The generic VK_CONTROL, VK_SHIFT and VK_MENU come last, as    *)
(* KEY_LEFTCTRL, KEY_LEFTSHIFT and KEY_LEFTALT.                            *)
KMap ==
  Consecutive(<<27, 49, 50, 51, 52, 53, 54, 55, 56, 57, 48, 189, 187, 8, 9,
                81, 87, 69, 82, 84, 89, 85, 73, 79, 80, 219, 221, 13, VK_LCONTROL,
                65, 83, 68, 70, 71, 72, 74, 75, 76, 186, 222, 192, VK_LSHIFT, 220,
                90, 88, 67, 86, 66, 78, 77, 188, 190, 191, VK_RSHIFT, 106,
                VK_LMENU, 32, 20, 112, 113, 114, 115, 116, 117, 118, 119, 120, 121,
                144, 145, 103, 104, 105, 109, 100, 101, 102, 107, 97, 98, 99, 96,
                110>>, 1)
  \o Consecutive(<<122, 123>>, 87)                     \* F11, F12
  \o Consecutive(<<VK_RCONTROL, 111>>, 97)             \* right Ctrl, keypad /
  \o <<<<VK_RMENU, 100>>>>
  \o Consecutive(<<36, 38, 33, 37, 39, 35, 40, 34, 45, 46>>, 102)  \* Home..Delete
  \o <<<<19, 119>>>>                                   \* Pause
  \o Consecutive(<<91, 92, 93>>, 125)                  \* Windows keys, Apps
  \o <<<<VK_CONTROL, 29>>, <<VK_SHIFT, 42>>, <<VK_MENU, 56>>>>

(* Mutant of Normalize: VK_SHIFT is passed on as it is.                    *)
NormalizeNoShift(m) ==
  CASE m.vk = VK_CONTROL -> IF m.ext THEN VK_RCONTROL ELSE VK_LCONTROL
    [] m.vk = VK_MENU    -> IF m.ext THEN VK_RMENU ELSE VK_LMENU
    [] OTHER             -> m.vk

(* HandleKey's left/right step: a generic Ctrl or Alt is the right-hand   *)
(* key when the extended bit is set; a generic Shift is the right one     *)
(* when its scan code is 0x36.                                             *)
Normalize(m) ==
  CASE m.vk = VK_CONTROL -> IF m.ext THEN VK_RCONTROL ELSE VK_LCONTROL
    [] m.vk = VK_MENU    -> IF m.ext THEN VK_RMENU ELSE VK_LMENU
    [] m.vk = VK_SHIFT   -> IF m.sc = 54 THEN VK_RSHIFT ELSE VK_LSHIFT
    [] OTHER             -> m.vk

(* VkToEvdev: the evdev code of the first entry whose vk equals the       *)
(* argument cast to uint16_t, or 0 when there is none.                     *)
VkToEvdev(vk) ==
  LET i == SelectInSeq(KMap, LAMBDA e : e[1] = vk % 2^16)
  IN  IF i = 0 THEN 0 ELSE KMap[i][2]

(* The evdev code HandleKey hands to key_cb_ for a key message, 0 for none. *)
KeyCode(m) == VkToEvdev(Normalize(m))

-----------------------------------------------------------------------------
(* Every key message of a key in the table, with and without the extended *)
(* bit, and with the scan codes of the left (0x2A) and right (0x36) Shift. *)
KeyMessages == {[vk |-> e[1], ext |-> x, sc |-> s] :
                  e \in Range(KMap), x \in BOOLEAN, s \in {42, 54}}

(* The codes HandleKey passes to VkToEvdev, and what each becomes.         *)
PassedVks == {Normalize(m) : m \in KeyMessages}
CodeOf == [v \in PassedVks |-> VkToEvdev(v)]

(* No two virtual-key codes HandleKey's left/right step can pass to      *)
(* VkToEvdev share a non-zero evdev code.                                  *)
VkCodesDistinct ==
  LET mapped == {v \in PassedVks : CodeOf[v] # 0}
  IN  Cardinality({CodeOf[v] : v \in mapped}) = Cardinality(mapped)
=============================================================================
