----------------------------- MODULE InputPath -----------------------------
(***************************************************************************)
(* The input path from the user to the guest: the display panel's capture *)
(* (DisplayPanel) hands key and pointer events to the manager, which      *)
(* writes them as IPC requests on the control pipe; the manager also       *)
(* writes console input and control requests.  The runtime's IPC thread   *)
(* hands each message to HandleMessage, which fills the managed ports the *)
(* guest devices poll (RuntimePorts).  The pipe, `inbox`, is the reliable *)
(* in-order channel IpcFraming shows the parse loop to be.                *)
(*                                                                         *)
(* The manager's side is not part of src/: the callbacks it installs and  *)
(* its encoding of console input follow the protocol of the specification *)
(* (input.key_event {key_code, pressed}, input.pointer_event {x, y,       *)
(* buttons}, console.input {data_hex}).                                    *)
(***************************************************************************)
EXTENDS RuntimePorts, KeyMap

CONSTANTS
  Keys, Buttons, MaxUserSteps,  \* the user (DisplayPanel)
  ConsoleInputs,                \* the byte strings typed at the console
  MaxConsoleInputs,             \* bound on console.input requests
  ControlRequests,              \* the control requests the manager may send
  MaxControlRequests,           \* bound on control requests
  MaxManagerRequests,           \* bound on console and control requests together
  HexAlphabet,                  \* characters DecodeHex is checked over
  MaxHexLength                  \* and the longest text it is checked on

VARIABLES
  captured, mouseButtons, focused, keysHeld, buttonsHeld, userSteps, keysSent,
  consoleTyped,     \* history: the bytes the manager sent as console input
  managerSends      \* the console and control requests the manager sent

managerVars == <<consoleTyped, managerSends>>

(* The byte values of the console inputs.                                  *)
ConsoleBytes == UNION {{bs[i] : i \in DOMAIN bs} : bs \in ConsoleInputs}
panelVars == <<captured, mouseButtons, focused, keysHeld, buttonsHeld,
               userSteps, keysSent>>
vars == <<inbox, panelVars, portVars, managerVars>>

(* std::to_string of a non-negative number.                                *)
RECURSIVE ToDecimal(_)
ToDecimal(n) == IF n < 10 THEN <<DecChars[n + 1]>>
                ELSE ToDecimal(n \div 10) \o <<DecChars[(n % 10) + 1]>>

(* The manager's key_cb_: an input.key_event request.                      *)
KeyMessage(code, pressed) ==
  [type |-> "input.key_event",
   fields |-> ("key_code" :> ToDecimal(code))
                @@ ("pressed" :> IF pressed THEN "1" ELSE "0")]

(* The manager's pointer_cb_: an input.pointer_event request (x and y are *)
(* left out with the coordinates).                                         *)
PointerMessage(buttons) ==
  [type |-> "input.pointer_event", fields |-> ("buttons" :> ToDecimal(buttons))]

(* The manager's console input: data_hex is EncodeHex of the bytes.        *)
ConsoleMessage(bytes) ==
  [type |-> "console.input", fields |-> ("data_hex" :> EncodeHex(bytes))]

Panel == INSTANCE DisplayPanel WITH out <- inbox, KeyCallback <- KeyMessage,
                                    PointerCallback <- PointerMessage

SystemInit ==
  /\ inbox = <<>>
  /\ Panel!Init
  /\ Init
  /\ consoleTyped = <<>>
  /\ managerSends = [console |-> 0, control |-> 0]

-----------------------------------------------------------------------------
(* The manager's console and control requests so far.                     *)
ManagerRequests == managerSends.console + managerSends.control

(* The manager sends console input.                                        *)
TypeConsole(bytes) ==
  /\ managerSends.console < MaxConsoleInputs
  /\ ManagerRequests < MaxManagerRequests
  /\ inbox' = Append(inbox, ConsoleMessage(bytes))
  /\ consoleTyped' = consoleTyped \o bytes
  /\ managerSends' = [managerSends EXCEPT !.console = @ + 1]
  /\ UNCHANGED <<panelVars, portVars>>

(* The manager sends a control request.                                    *)
SendControl(m) ==
  /\ managerSends.control < MaxControlRequests
  /\ ManagerRequests < MaxManagerRequests
  /\ inbox' = Append(inbox, [m EXCEPT !.request_id = managerSends.control + 1])
  /\ managerSends' = [managerSends EXCEPT !.control = @ + 1]
  /\ UNCHANGED <<consoleTyped, panelVars, portVars>>

UserStep == Panel!Next /\ UNCHANGED <<portVars, managerVars>>
RuntimeStep(A) == A /\ UNCHANGED <<panelVars, managerVars>>

SystemNext ==
  \/ UserStep
  \/ RuntimeStep(Next)
  \/ \E bytes \in ConsoleInputs : TypeConsole(bytes)
  \/ \E m \in ControlRequests : SendControl(m)

(* The IPC thread, the guest's input devices and its console reader are   *)
(* threads that keep polling: each step they can take is eventually taken. *)
SystemSpec ==
  /\ SystemInit /\ [][SystemNext]_vars
  /\ WF_vars(RuntimeStep(HandleNext))
  /\ WF_vars(RuntimeStep(PollKeyboard))
  /\ WF_vars(RuntimeStep(PollPointer))
  /\ WF_vars(RuntimeStep(\E size \in ReadSizes : ReadCall(size)))
  /\ WF_vars(RuntimeStep(ReadWake))

-----------------------------------------------------------------------------
KeyEventRecord == [code : Int, pressed : BOOLEAN]
Message == {KeyMessage(c, p) : c \in Panel!Evdev(Keys), p \in BOOLEAN}
           \cup {PointerMessage(b) : b \in 0 .. 7}
           \cup {ConsoleMessage(bs) : bs \in ConsoleInputs}
           \cup {[m EXCEPT !.request_id = n] :
                  m \in ControlRequests, n \in 1 .. MaxControlRequests}

TypeOK ==
  /\ inbox \in Seq(Message)
  /\ captured \in BOOLEAN /\ focused \in BOOLEAN
  /\ mouseButtons \subseteq Buttons /\ buttonsHeld \subseteq Buttons
  /\ keysHeld \subseteq Keys
  /\ userSteps \in 0 .. MaxUserSteps
  /\ keysSent \in Seq(KeyEventRecord)
  /\ vmAttached \in BOOLEAN
  /\ responses \in Seq([type : STRING, ok : BOOLEAN, request_id : Nat])
  /\ keyQueue \in Seq(KeyEventRecord) /\ keysPolled \in Seq(KeyEventRecord)
  /\ pointerQueue \in Seq([buttons : Int])
  /\ pointersPolled \in Seq([buttons : Int])
  /\ consoleQueue \in Seq(0 .. 255) /\ consoleGot \in Seq(0 .. 255)
  /\ consoleTyped \in Seq(ConsoleBytes)
  /\ reader \in [pc : {"idle", "wait"}, size : {0} \cup ReadSizes]
  /\ guestKeys \subseteq Panel!Evdev(Keys)

KeyChan == INSTANCE IpcChannel WITH Message <- [code : Panel!Evdev(Keys),
                                                 pressed : BOOLEAN],
                                    sent <- keysSent, delivered <- keysPolled

(* The guest keyboard polls exactly the key events the panel handed to    *)
(* key_cb_, in order, with their codes and press flags, and eventually    *)
(* all of them: the manager's decimal text and "1"/"0", HandleMessage's   *)
(* strtoul and pressed test, and the FIFO key_queue_ between the IPC      *)
(* thread and the guest's polls lose, reorder or alter none.              *)
KeyDelivery == KeyChan!Spec

(* The guest console reads back exactly the bytes the manager sent as     *)
(* console input, in order, none lost or repeated, and none left waiting  *)
(* for ever: it catches up with the manager again and again.  This holds  *)
(* however Read's buffer sizes, its 16 ms wait without a predicate and    *)
(* the IPC thread's pushes cut the bytes: EncodeHex on the manager's side *)
(* and DecodeHex, then PushInput and the copy loop of                      *)
(* ManagedConsolePort::Read.                                               *)
ConsoleFaithful ==
  /\ [](IsPrefix(consoleGot, consoleTyped))
  /\ []<>(consoleGot = consoleTyped)

(* Two different keys never reach the guest as the same evdev code: no   *)
(* two virtual-key codes HandleKey's left/right step can pass to          *)
(* VkToEvdev share a code in kMap, and every key event the guest keyboard *)
(* has polled names exactly one of the user's keys.  Were two keys to     *)
(* share a code, the guest would take the release of one for the release *)
(* of the other while it is still held down.                               *)
KeyCodesDistinct ==
  /\ VkCodesDistinct
  /\ \A i \in DOMAIN keysPolled :
       Cardinality({k \in Keys : KeyCode(k) = keysPolled[i].code}) = 1

(* Every control request the manager writes is answered by HandleMessage  *)
(* exactly once, in the order of the requests, with the request's own     *)
(* request_id copied into the response, and eventually (the answers catch *)
(* up with the requests again and again): runtime.command with a command, *)
(* with vm_ attached or not, and without one (its early return),           *)
(* runtime.update_network also when vm_ is not attached, and              *)
(* runtime.ping.  No other message is answered.                           *)
ControlAnswered ==
  /\ [](\A i \in DOMAIN responses : responses[i].request_id = i)
  /\ []<>(Len(responses) = managerSends.control)

(* A hex digit's value as EncodeHex writes it: the reference for DecodeHex. *)
RefNibble(ch) ==
  CHOOSE x \in 0 .. 15 : \/ EncodeHex(<<x>>)[2] = ch
                         \/ HexUpper[x + 1] = ch
IsHexDigit(ch) == \E x \in 0 .. 15 : EncodeHex(<<x>>)[2] = ch
                                     \/ HexUpper[x + 1] = ch

(* What DecodeHex must return: the bytes whose digits the text spells, in *)
(* either case, or nothing for an odd length or a non-hex character.       *)
RefDecode(v) ==
  IF Len(v) % 2 = 0 /\ \A i \in DOMAIN v : IsHexDigit(v[i])
    THEN [i \in 1 .. Len(v) \div 2 |-> 16 * RefNibble(v[2 * i - 1]) + RefNibble(v[2 * i])]
    ELSE <<>>

(* DecodeHex against the reference on every text up to MaxHexLength over *)
(* HexAlphabet, and after EncodeHex of every byte (evaluated once).        *)
HexReference ==
  /\ \A v \in BoundedSeq(HexAlphabet, MaxHexLength) : DecodeHex(v) = RefDecode(v)
  /\ \A b \in 0 .. 255 : DecodeHex(EncodeHex(<<b>>)) = <<b>>

(* DecodeHex returns what the reference says on every short text, undoes *)
(* EncodeHex on every byte, and agrees with the reference on the data_hex *)
(* of every console.input on the pipe: the codec of the console payloads. *)
HexCodecCorrect ==
  /\ HexReference
  /\ \A i \in DOMAIN inbox :
       inbox[i].type = "console.input" =>
         DecodeHex(inbox[i].fields["data_hex"]) = RefDecode(inbox[i].fields["data_hex"])

(* No key or pointer messages are on their way to the guest.             *)
InputDrained ==
  /\ \A i \in DOMAIN inbox : inbox[i].type \notin {"input.key_event", "input.pointer_event"}
  /\ keyQueue = <<>> /\ pointerQueue = <<>>

(* The buttons the guest's pointer holds: the mask of the last pointer    *)
(* event it polled, since every event carries the whole mask.             *)
GuestButtons == IF pointersPolled = <<>> THEN 0 ELSE Last(pointersPolled).buttons

(* Once every input event has reached the guest, the guest holds down     *)
(* only keys and buttons the user holds down: the panel forwards the      *)
(* release of every key and button whose press it forwarded (HandleKey,   *)
(* HandleMouse, the Ctrl+Alt release and WM_KILLFOCUS).                   *)
NoStuckInput ==
  InputDrained =>
    /\ guestKeys \subseteq Panel!Evdev(keysHeld)
    /\ \A b \in Buttons : (GuestButtons \div b) % 2 = 1 => b \in buttonsHeld
=============================================================================
