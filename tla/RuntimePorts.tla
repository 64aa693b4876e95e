---------------------------- MODULE RuntimePorts ----------------------------
(***************************************************************************)
(* The inbound half of the runtime: RuntimeControlService::HandleMessage  *)
(* and the managed ports it feeds (src/runtime/runtime_service.cpp),       *)
(* against the guest devices that poll them.                               *)
(*                                                                         *)
(* `inbox` holds the messages the IPC thread's parse loop hands to         *)
(* HandleMessage, in order (IpcFraming shows the loop does so).  A message *)
(* is a record [type, fields]; fields is a function from the names present *)
(* to their text, a sequence of one-character strings.  The Vm's methods  *)
(* are not part of src/; their calls are recorded in `vmCalls`.  The      *)
(* guest's keyboard and tablet devices poll the input port, and its       *)
(* console device calls ManagedConsolePort::Read with its buffer size.     *)
(***************************************************************************)
EXTENDS Integers, Sequences, SequencesExt, FiniteSetsExt

CONSTANTS
  ReadSizes,    \* the buffer sizes the guest console device reads with
  FieldTexts    \* the texts the fields HandleMessage parses may hold

VARIABLES
  inbox,          \* the messages handed to HandleMessage, not yet handled
  vmAttached,     \* vm_ # nullptr
  vmCalls,        \* history: the Vm methods HandleMessage called
  responses,      \* history: the responses Send wrote back
  keyQueue,       \* ManagedInputPort::key_queue_
  pointerQueue,   \* ManagedInputPort::pointer_queue_
  consoleQueue,   \* ManagedConsolePort::queue_
  reader,         \* the console device's Read: [pc, size]
  keysPolled,     \* history: the key events the guest polled
  pointersPolled, \* history: the pointer events the guest polled
  consoleGot,     \* history: the bytes Read copied out
  guestKeys       \* the evdev codes the guest holds pressed

portVars == <<vmAttached, vmCalls, responses, keyQueue, pointerQueue,
              consoleQueue, reader, keysPolled, pointersPolled, consoleGot,
              guestKeys>>

(* The characters, in the order their values are: kDigits of EncodeHex    *)
(* and the upper-case digits DecodeHex also accepts.                       *)
DecChars == <<"0", "1", "2", "3", "4", "5", "6", "7", "8", "9">>
HexLower == DecChars \o <<"a", "b", "c", "d", "e", "f">>
HexUpper == DecChars \o <<"A", "B", "C", "D", "E", "F">>


VmCall(call, link, forwards) == [call |-> call, link |-> link, forwards |-> forwards]
(* A response as Send writes it: its type, its ok field and the          *)
(* request_id copied from the request.                                     *)
Response(type, ok, id) == [type |-> type, ok |-> ok, request_id |-> id]

Init ==
  /\ vmAttached = FALSE
  /\ vmCalls = <<>>
  /\ responses = <<>>
  /\ keyQueue = <<>>
  /\ pointerQueue = <<>>
  /\ consoleQueue = <<>>
  /\ reader = [pc |-> "idle", size |-> 0]
  /\ keysPolled = <<>>
  /\ pointersPolled = <<>>
  /\ consoleGot = <<>>
  /\ guestKeys = {}

-----------------------------------------------------------------------------
(* EncodeHex: two lower-case digits per byte, high nibble first.          *)
EncodeHex(data) ==
  [i \in 1 .. 2 * Len(data) |->
     IF i % 2 = 1 THEN HexLower[data[(i + 1) \div 2] \div 16 + 1]
                  ELSE HexLower[(data[i \div 2] % 16) + 1]]

(* The value of character ch among the digits ds.                          *)
Position(ds, ch) == SelectInSeq(ds, LAMBDA d : d = ch) - 1

(* Mutant of HexDigit: the upper-case branch is missing.                  *)
HexDigitLowerOnly(ch) ==
  CASE ch \in Range(DecChars) -> Position(DecChars, ch)
    [] ch \in Range(HexLower) -> Position(HexLower, ch)
    [] OTHER -> -1

(* The hex lambda of DecodeHex: a digit's value, or -1.                   *)
HexDigit(ch) ==
  CASE ch \in Range(DecChars) -> Position(DecChars, ch)
    [] ch \in Range(HexLower) -> Position(HexLower, ch)
    [] ch \in Range(HexUpper) -> Position(HexUpper, ch)
    [] OTHER -> -1

(* Mutant of DecodeHex: the low nibble is taken as the high one.          *)
DecodeHexSwapped(value) ==
  IF Len(value) % 2 # 0 THEN <<>>
  ELSE IF \E i \in DOMAIN value : HexDigit(value[i]) < 0 THEN <<>>
  ELSE [i \in 1 .. Len(value) \div 2 |->
          HexDigit(value[2 * i]) * 16 + HexDigit(value[2 * i - 1])]

(* DecodeHex: an odd length or a non-hex digit gives no bytes at all.     *)
DecodeHex(value) ==
  IF Len(value) % 2 # 0 THEN <<>>
  ELSE IF \E i \in DOMAIN value : HexDigit(value[i]) < 0 THEN <<>>
  ELSE [i \in 1 .. Len(value) \div 2 |->
          HexDigit(value[2 * i - 1]) * 16 + HexDigit(value[2 * i])]

(* The length of the run of decimal digits that starts s.                 *)
RECURSIVE DigitRun(_)
DigitRun(s) == IF s # <<>> /\ Head(s) \in Range(DecChars) THEN 1 + DigitRun(Tail(s))
               ELSE 0

(* Mutant of DecimalValue: the digits are read from the wrong end.        *)
RECURSIVE DecimalValueReversed(_)
DecimalValueReversed(s) ==
  IF s = <<>> THEN 0
  ELSE 10 * DecimalValueReversed(Tail(s)) + Position(DecChars, Head(s))

(* The value of a sequence of decimal digits.                              *)
RECURSIVE DecimalValue(_)
DecimalValue(s) == IF s = <<>> THEN 0
                   ELSE 10 * DecimalValue(Front(s)) + Position(DecChars, Last(s))

(* strtoul and sscanf's %u on a 32-bit unsigned long: an optional minus   *)
(* sign, then digits; a minus sign negates modulo 2^32.  val is the       *)
(* result as its two's-complement representative, as TLC's integers are   *)
(* 32-bit: "-1" reads as -1, the same value modulo 2^32 as 4294967295;     *)
(* narrower casts take it modulo 2^w.  ok: some digit was read; rest: the *)
(* text after the number.                                                   *)
ScanUnsigned(s) ==
  LET neg  == s # <<>> /\ Head(s) = "-"
      body == IF neg THEN Tail(s) ELSE s
      k    == DigitRun(body)
      v    == DecimalValue(SubSeq(body, 1, k))
  IN  [ok |-> k > 0, val |-> IF neg THEN -v ELSE v,
       rest |-> SubSeq(body, k + 1, Len(body))]

(* std::from_chars into an int: an optional minus sign, then at least one *)
(* digit; the text after the digits is not looked at.                      *)
FromChars(s) ==
  LET neg  == s # <<>> /\ Head(s) = "-"
      body == IF neg THEN Tail(s) ELSE s
      v    == DecimalValue(SubSeq(body, 1, DigitRun(body)))
  IN  [ok |-> DigitRun(body) > 0, val |-> IF neg THEN -v ELSE v]

(* sscanf(text, "%u:%u", &hp, &gp): the number of conversions and the two *)
(* values.                                                                  *)
ScanPorts(s) ==
  LET a == ScanUnsigned(s) IN
  IF ~a.ok THEN [n |-> 0, hp |-> 0, gp |-> 0]
  ELSE IF a.rest = <<>> \/ Head(a.rest) # ":" THEN [n |-> 1, hp |-> a.val, gp |-> 0]
  ELSE LET b == ScanUnsigned(Tail(a.rest)) IN
       [n |-> IF b.ok THEN 2 ELSE 1, hp |-> a.val, gp |-> b.val]

(* Each parse of a field text, computed once for every text a field may  *)
(* hold.                                                                    *)
Parsed == [t \in FieldTexts |-> [unsigned |-> ScanUnsigned(t), ports |-> ScanPorts(t),
                                 int |-> FromChars(t), hex |-> DecodeHex(t)]]

-----------------------------------------------------------------------------
(* Field values the code compares whole ("command", "link_up", "pressed") *)
(* are strings; the ones it parses are sequences of characters.           *)
Has(m, f) == f \in DOMAIN m.fields

(* The Vm methods a known runtime.command calls when vm_ is attached.     *)
CommandCalls(cmd) ==
  CASE cmd \in {"stop", "reboot"} -> <<VmCall("RequestStop", FALSE, <<>>)>>
    [] cmd = "shutdown" -> <<VmCall("TriggerPowerButton", FALSE, <<>>),
                            VmCall("InjectConsoleBytes", FALSE, <<>>)>>
    [] OTHER -> <<>>

(* Mutant of RuntimeCommand: the missing-command branch returns without  *)
(* its Send.                                                               *)
RuntimeCommandMissingSilent(m) ==
  /\ m.type = "runtime.command"
  /\ responses' = IF Has(m, "command")
                    THEN Append(responses, Response("runtime.command.result",
                           m.fields["command"] \in {"stop", "shutdown", "reboot", "start"},
                           m.request_id))
                    ELSE responses
  /\ vmCalls' = IF Has(m, "command") /\ vmAttached
                  THEN vmCalls \o CommandCalls(m.fields["command"]) ELSE vmCalls
  /\ UNCHANGED <<vmAttached, keyQueue, pointerQueue, consoleQueue>>

(* runtime.command: a missing or unknown command is answered ok=false;    *)
(* stop, shutdown and reboot call into the Vm only when vm_ is set, and   *)
(* are answered ok=true either way.                                        *)
RuntimeCommand(m) ==
  /\ m.type = "runtime.command"
  /\ responses' = Append(responses, Response("runtime.command.result",
                    Has(m, "command") /\
                    m.fields["command"] \in {"stop", "shutdown", "reboot", "start"},
                    m.request_id))
  /\ vmCalls' = IF Has(m, "command") /\ vmAttached
                  THEN vmCalls \o CommandCalls(m.fields["command"]) ELSE vmCalls
  /\ UNCHANGED <<vmAttached, keyQueue, pointerQueue, consoleQueue>>

(* "forward_" + std::to_string(i)                                          *)
ForwardField(i) == "forward_" \o ToString(i)

(* One iteration of the forward loop: the entry, when its field is there, *)
(* sscanf converts two numbers and neither is 0; each is cast to uint16_t. *)
ForwardAt(m, i) ==
  LET p == Parsed[m.fields[ForwardField(i)]].ports IN
  IF Has(m, ForwardField(i)) /\ p.n = 2 /\ p.hp # 0 /\ p.gp # 0
    THEN <<[host |-> p.hp % 2^16, guest |-> p.gp % 2^16]>>
    ELSE <<>>

(* The SetNetLinkUp and UpdatePortForwards calls of an update_network.     *)
NetworkCalls(m) ==
  LET c == Parsed[m.fields["forward_count"]].int IN
  (IF Has(m, "link_up")
     THEN <<VmCall("SetNetLinkUp", m.fields["link_up"] = "true", <<>>)>>
     ELSE <<>>)
  \o
  (IF Has(m, "forward_count") /\ c.ok /\ c.val >= 0
     THEN <<VmCall("UpdatePortForwards", FALSE,
                   FlattenSeq([i \in 1 .. c.val |-> ForwardAt(m, i - 1)]))>>
     ELSE <<>>)

(* runtime.update_network: refused with ok=false while vm_ is not set.    *)
UpdateNetwork(m) ==
  /\ m.type = "runtime.update_network"
  /\ responses' = Append(responses,
                    Response("runtime.update_network.result", vmAttached,
                             m.request_id))
  /\ vmCalls' = IF vmAttached THEN vmCalls \o NetworkCalls(m) ELSE vmCalls
  /\ UNCHANGED <<vmAttached, keyQueue, pointerQueue, consoleQueue>>

(* ManagedConsolePort::PushInput: append the bytes under mutex_ and wake *)
(* the readers; an empty input returns at once.                           *)
PushInput(bytes) == consoleQueue' = consoleQueue \o bytes

(* ManagedInputPort::PushKeyEvent and PushPointerEvent: append under mutex_. *)
PushKeyEvent(ev) == keyQueue' = Append(keyQueue, ev)
PushPointerEvent(ev) == pointerQueue' = Append(pointerQueue, ev)

(* console.input: DecodeHex of data_hex, then ManagedConsolePort::PushInput *)
(* (no bytes, for a value DecodeHex rejects).                              *)
ConsoleInput(m) ==
  /\ m.type = "console.input"
  /\ IF Has(m, "data_hex")
       THEN PushInput(Parsed[m.fields["data_hex"]].hex)
       ELSE UNCHANGED consoleQueue
  /\ UNCHANGED <<vmAttached, vmCalls, responses, keyQueue, pointerQueue>>

(* Mutant of PressedValue: only "true" is a press.                         *)
PressedValueTrueOnly(text) == text \in {"true"}

(* The pressed field: "1" or "true" is a press, anything else a release.  *)
PressedValue(text) == text \in {"1", "true"}

(* input.key_event: with both fields, strtoul of key_code and the pressed *)
(* flag go to ManagedInputPort::PushKeyEvent; otherwise it is dropped.    *)
KeyEvent(m) ==
  /\ m.type = "input.key_event"
  /\ IF Has(m, "key_code") /\ Has(m, "pressed")
       THEN PushKeyEvent([code    |-> Parsed[m.fields["key_code"]].unsigned.val,
                          pressed |-> PressedValue(m.fields["pressed"])])
       ELSE UNCHANGED keyQueue
  /\ UNCHANGED <<vmAttached, vmCalls, responses, pointerQueue, consoleQueue>>

(* input.pointer_event: always pushed; a missing buttons field is 0.      *)
PointerEvent(m) ==
  /\ m.type = "input.pointer_event"
  /\ PushPointerEvent([buttons |-> IF Has(m, "buttons")
                                    THEN Parsed[m.fields["buttons"]].unsigned.val
                                    ELSE 0])
  /\ UNCHANGED <<vmAttached, vmCalls, responses, keyQueue, consoleQueue>>

(* Mutant of Ping: the pong leaves request_id at its default, 0.          *)
PingNoId(m) ==
  /\ m.type = "runtime.ping"
  /\ responses' = Append(responses, Response("runtime.pong", TRUE, 0))
  /\ UNCHANGED <<vmAttached, vmCalls, keyQueue, pointerQueue, consoleQueue>>

(* runtime.ping is answered with runtime.pong.                              *)
Ping(m) ==
  /\ m.type = "runtime.ping"
  /\ responses' = Append(responses, Response("runtime.pong", TRUE, m.request_id))
  /\ UNCHANGED <<vmAttached, vmCalls, keyQueue, pointerQueue, consoleQueue>>

(* RuntimeControlService::HandleMessage: the branch for the message type. *)
HandleMessage(m) ==
  \/ RuntimeCommand(m)
  \/ UpdateNetwork(m)
  \/ ConsoleInput(m)
  \/ KeyEvent(m)
  \/ PointerEvent(m)
  \/ Ping(m)

(* The IPC thread hands the next parsed message to HandleMessage.          *)
HandleNext ==
  /\ inbox # <<>>
  /\ inbox' = Tail(inbox)
  /\ HandleMessage(Head(inbox))
  /\ UNCHANGED <<reader, keysPolled, pointersPolled, consoleGot, guestKeys>>

(* RuntimeControlService::AttachVm.                                         *)
AttachVm ==
  /\ ~vmAttached
  /\ vmAttached' = TRUE
  /\ UNCHANGED <<inbox, vmCalls, responses, keyQueue, pointerQueue, consoleQueue,
                 reader, keysPolled, pointersPolled, consoleGot, guestKeys>>

-----------------------------------------------------------------------------
(* ManagedInputPort::PollKeyboard returning an event: the front of the    *)
(* queue, which the guest keyboard applies to its pressed keys.  A poll   *)
(* of the empty queue returns false and changes nothing.                   *)
PollKeyboard ==
  /\ keyQueue # <<>>
  /\ keyQueue' = Tail(keyQueue)
  /\ keysPolled' = Append(keysPolled, Head(keyQueue))
  /\ guestKeys' = IF Head(keyQueue).pressed THEN guestKeys \cup {Head(keyQueue).code}
                                            ELSE guestKeys \ {Head(keyQueue).code}
  /\ UNCHANGED <<inbox, vmAttached, vmCalls, responses, pointerQueue,
                 consoleQueue, reader, pointersPolled, consoleGot>>

(* ManagedInputPort::PollPointer returning an event.                        *)
PollPointer ==
  /\ pointerQueue # <<>>
  /\ pointerQueue' = Tail(pointerQueue)
  /\ pointersPolled' = Append(pointersPolled, Head(pointerQueue))
  /\ UNCHANGED <<inbox, vmAttached, vmCalls, responses, keyQueue,
                 consoleQueue, reader, keysPolled, consoleGot, guestKeys>>

(* The copy loop of ManagedConsolePort::Read: up to size bytes from the   *)
(* front of the queue.                                                     *)
CopyOut(size) ==
  LET n == Min({size, Len(consoleQueue)}) IN
  /\ consoleGot' = consoleGot \o SubSeq(consoleQueue, 1, n)
  /\ consoleQueue' = SubSeq(consoleQueue, n + 1, Len(consoleQueue))

(* ManagedConsolePort::Read(out, size) up to its wait: with bytes queued  *)
(* it copies at once; with none it waits on cv_, releasing the mutex.     *)
ReadCall(size) ==
  /\ reader.pc = "idle"
  /\ IF consoleQueue = <<>>
       THEN /\ reader' = [pc |-> "wait", size |-> size]
            /\ UNCHANGED <<consoleQueue, consoleGot>>
       ELSE /\ CopyOut(size)
            /\ UNCHANGED reader
  /\ UNCHANGED <<inbox, vmAttached, vmCalls, responses, keyQueue, pointerQueue,
                 keysPolled, pointersPolled, guestKeys>>

(* The wait_for ends, on PushInput's notify_all or after 16 ms, and Read  *)
(* copies what is queued by then, possibly nothing.                        *)
ReadWake ==
  /\ reader.pc = "wait"
  /\ CopyOut(reader.size)
  /\ reader' = [pc |-> "idle", size |-> 0]
  /\ UNCHANGED <<inbox, vmAttached, vmCalls, responses, keyQueue, pointerQueue,
                 keysPolled, pointersPolled, guestKeys>>

Next ==
  \/ HandleNext
  \/ AttachVm
  \/ PollKeyboard
  \/ PollPointer
  \/ \E size \in ReadSizes : ReadCall(size)
  \/ ReadWake
=============================================================================
