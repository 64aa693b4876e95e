------------------------------ MODULE VDAgent ------------------------------
(***************************************************************************)
(* VDAgentHandler (src/core/vdagent/vdagent_handler.cpp): the host end of *)
(* the SPICE agent protocol over a virtio-serial port, against a guest    *)
(* agent that chunks and decodes the same way.                            *)
(*                                                                         *)
(* A message is a chunk stream: a chunk header {port, size}, then size    *)
(* bytes.  The first chunk of a message starts with the VDAgentMessage    *)
(* header {protocol, type, opaque, size}; later chunks carry payload only.*)
(* The unit of the model is one field: a chunk header, a message header  *)
(* and a payload word are one symbol each, and sizes count symbols.      *)
(* VD_AGENT_MAX_CHUNK_SIZE is scaled down to MaxChunk.                    *)
(*                                                                         *)
(* Actors: the virtio-serial device thread calls OnDataReceived with any  *)
(* split of the guest's byte stream; it parses under mutex_, unlocks, and *)
(* only then sends the capability reply.  The IPC thread calls the        *)
(* SendClipboard* functions, each of which holds mutex_ across the whole  *)
(* SendMessage.  The guest agent announces its capabilities with          *)
(* request=1 and sends clipboard messages once it knows the host's.       *)
(***************************************************************************)
EXTENDS Naturals, Sequences, SequencesExt

CONSTANTS
  MaxChunk,       \* VD_AGENT_MAX_CHUNK_SIZE, in symbols
  Selections,     \* clipboard selections the peers use (besides 0)
  Types,          \* clipboard data types
  DataBytes,      \* clipboard data values
  MaxGuestMsgs,   \* bound on the messages the guest agent sends
  MaxHostCalls    \* bound on the SendClipboard* calls of the IPC thread

ASSUME MaxChunk >= 2

Kinds == {"announce", "grab", "data", "request", "release"}

(* A clipboard action, as the callback's ClipboardEvent: kind, selection, *)
(* available_types, data_type, data.  An announce uses type as request.   *)
Ev(kind, sel, types, type, data) ==
  [kind |-> kind, sel |-> sel, types |-> types, type |-> type, data |-> data]
NoEv == Ev("announce", 0, <<>>, 0, <<>>)

(* Wire symbols: chunk header, message header, payload word.             *)
CH(size) == [k |-> "ch", n |-> size, t |-> "none"]
MH(type, size) == [k |-> "mh", n |-> size, t |-> type]
W(v) == [k |-> "w", n |-> v, t |-> "none"]
Values(s) == [i \in DOMAIN s |-> s[i].n]

(* The capability word abstracted to its VD_AGENT_CAP_CLIPBOARD_SELECTION *)
(* bit; the constructor sets it in host_caps_.                            *)
HostCapsWord == 1

VARIABLES
  wireIn,         \* guest-to-host bytes not yet passed to OnDataReceived
  recvBuf,        \* recv_buffer_
  hasPending,     \* has_pending_msg_
  pendingMsg,     \* pending_msg_: [type, size]
  pendingData,    \* pending_data_
  guestCaps,      \* guest_caps_
  capsReceived,   \* guest_caps_received_
  needSendCaps,   \* OnDataReceived's need_send_caps, after the unlock
  events,         \* history: the ClipboardEvents passed to the callback
  recvd,          \* history: the messages reassembled, [type, payload]
  wireOut,        \* host-to-guest messages, each as its chunks, not yet
                  \* read by the guest
  hostSent,       \* history: the clipboard actions the host put on the wire
  hostCalls,      \* SendClipboard* calls made by the IPC thread
  guestSel,       \* the guest agent supports selections
  guestKnowsHost, \* the guest has received the host's capabilities
  guestAsked,     \* the guest has announced with request=1
  guestSent,      \* history: the actions the guest sent, normalised
  guestMsgs,      \* history: the messages the guest sent, [type, payload]
  guestGot        \* history: the host clipboard actions the guest decoded

vars == <<wireIn, recvBuf, hasPending, pendingMsg, pendingData, guestCaps,
          capsReceived, needSendCaps, events, recvd, wireOut, hostSent,
          hostCalls, guestSel, guestKnowsHost, guestAsked, guestSent,
          guestMsgs, guestGot>>

Init ==
  /\ wireIn = <<>>
  /\ recvBuf = <<>>
  /\ hasPending = FALSE
  /\ pendingMsg = [type |-> "none", size |-> 0]
  /\ pendingData = <<>>
  /\ guestCaps = <<>>
  /\ capsReceived = FALSE
  /\ needSendCaps = FALSE
  /\ events = <<>>
  /\ recvd = <<>>
  /\ wireOut = <<>>
  /\ hostSent = <<>>
  /\ hostCalls = 0
  /\ guestSel \in BOOLEAN
  /\ guestKnowsHost = FALSE
  /\ guestAsked = FALSE
  /\ guestSent = <<>>
  /\ guestMsgs = <<>>
  /\ guestGot = <<>>

-----------------------------------------------------------------------------
(* HasCapability(VD_AGENT_CAP_CLIPBOARD_SELECTION): word 0 must exist.   *)
HasSelection(caps) == Len(caps) >= 1 /\ caps[1] = 1

(* The payload layouts of the SendClipboard* functions and of            *)
(* SendAnnounceCapabilities; sel is whether the selection layout is used. *)
GrabPayload(e, sel) == IF sel THEN <<e.sel>> \o e.types ELSE e.types
DataPayload(e, sel) ==
  IF sel THEN <<e.sel, e.type>> \o e.data ELSE <<e.type>> \o e.data
RequestPayload(e, sel) == IF sel THEN <<e.sel, e.type>> ELSE <<e.type>>
ReleasePayload(e, sel) == IF sel THEN <<e.sel>> ELSE <<>>
AnnouncePayload(request, capsWord) == <<request, capsWord>>

Payload(e, sel) ==
  CASE e.kind = "grab"     -> GrabPayload(e, sel)
    [] e.kind = "data"     -> DataPayload(e, sel)
    [] e.kind = "request"  -> RequestPayload(e, sel)
    [] e.kind = "release"  -> ReleasePayload(e, sel)
    [] e.kind = "announce" -> AnnouncePayload(e.type, IF sel THEN 1 ELSE 0)

(* What the legacy layout can carry: the selection is always CLIPBOARD.   *)
Normalise(e, sel) == IF sel THEN e ELSE [e EXCEPT !.sel = 0]

(* Mutant of SendMessage: the first chunk's room is not reduced by the   *)
(* VDAgentMessage header.                                                 *)
RECURSIVE ContinuationChunks(_, _)
SendMessageHeaderUncounted(type, payload) ==
  LET first == IF Len(payload) < MaxChunk THEN Len(payload) ELSE MaxChunk
  IN  <<CH(1 + first), MH(type, Len(payload))>>
        \o [i \in 1 .. first |-> W(payload[i])]
        \o ContinuationChunks(payload, first)

(* The continuation chunks of SendMessage from offset on.                 *)
ContinuationChunks(payload, offset) ==
  IF offset >= Len(payload) THEN <<>>
  ELSE LET n == IF Len(payload) - offset < MaxChunk
                  THEN Len(payload) - offset ELSE MaxChunk
       IN  <<CH(n)>> \o [i \in 1 .. n |-> W(payload[offset + i])]
             \o ContinuationChunks(payload, offset + n)

(* SendMessage: the first chunk carries the message header and as much  *)
(* payload as fits; the rest follows in chunks of at most MaxChunk.       *)
SendMessage(type, payload) ==
  LET first == IF Len(payload) < MaxChunk - 1 THEN Len(payload)
                                             ELSE MaxChunk - 1
  IN  <<CH(1 + first), MH(type, Len(payload))>>
        \o [i \in 1 .. first |-> W(payload[i])]
        \o ContinuationChunks(payload, first)

-----------------------------------------------------------------------------
(* The clipboard handlers: the event each one passes to the callback, as *)
(* a sequence of at most one; d holds at least size words.                *)
(* Mutant of HandleClipboardGrab: the selection layout is assumed.       *)
HandleClipboardGrabAlwaysSelection(caps, d, size) ==
  IF size >= 1 THEN <<Ev("grab", d[1], SubSeq(d, 2, size), 0, <<>>)>>
  ELSE <<Ev("grab", 0, <<>>, 0, <<>>)>>

HandleClipboardGrab(caps, d, size) ==
  IF HasSelection(caps) /\ size >= 1
    THEN <<Ev("grab", d[1], SubSeq(d, 2, size), 0, <<>>)>>
    ELSE <<Ev("grab", 0, SubSeq(d, 1, size), 0, <<>>)>>

HandleClipboardData(caps, d, size) ==
  IF HasSelection(caps) /\ size >= 2
    THEN <<Ev("data", d[1], <<>>, d[2], SubSeq(d, 3, size))>>
  ELSE IF size >= 1 THEN <<Ev("data", 0, <<>>, d[1], SubSeq(d, 2, size))>>
  ELSE <<>>

HandleClipboardRequest(caps, d, size) ==
  IF HasSelection(caps) /\ size >= 2
    THEN <<Ev("request", d[1], <<>>, d[2], <<>>)>>
  ELSE IF size >= 1 THEN <<Ev("request", 0, <<>>, d[1], <<>>)>>
  ELSE <<>>

HandleClipboardRelease(caps, d, size) ==
  IF HasSelection(caps) /\ size >= 1
    THEN <<Ev("release", d[1], <<>>, 0, <<>>)>>
    ELSE <<Ev("release", 0, <<>>, 0, <<>>)>>

(* ProcessMessage: the switch on the message type.  Its ANNOUNCE branch  *)
(* is never reached, as OnDataReceived handles announces itself.          *)
ProcessMessage(caps, m) ==
  LET size == Len(m.payload) IN
  CASE m.type = "grab"    -> HandleClipboardGrab(caps, m.payload, size)
    [] m.type = "data"    -> HandleClipboardData(caps, m.payload, size)
    [] m.type = "request" -> HandleClipboardRequest(caps, m.payload, size)
    [] m.type = "release" -> HandleClipboardRelease(caps, m.payload, size)
    [] OTHER              -> <<>>

-----------------------------------------------------------------------------
(* Mutant of Collect: a message is complete only once more than size   *)
(* payload bytes have been collected.                                     *)
CollectOffByOne(st, rest, msg, data) ==
  IF Len(data) > msg.size
    THEN [buf |-> rest, has |-> FALSE, msg |-> msg, data |-> <<>>,
          out |-> Append(st.out, [type |-> msg.type,
                                  payload |-> SubSeq(data, 1, msg.size)])]
    ELSE [buf |-> rest, has |-> TRUE, msg |-> msg, data |-> data,
          out |-> st.out]

(* The completion check of the OnDataReceived loop: the message of      *)
(* [msg, data] goes to out with its first size bytes once size bytes are *)
(* collected, and otherwise stays pending.                                *)
Collect(st, rest, msg, data) ==
  IF Len(data) >= msg.size
    THEN [buf |-> rest, has |-> FALSE, msg |-> msg, data |-> <<>>,
          out |-> Append(st.out, [type |-> msg.type,
                                  payload |-> SubSeq(data, 1, msg.size)])]
    ELSE [buf |-> rest, has |-> TRUE, msg |-> msg, data |-> data,
          out |-> st.out]

(* One complete chunk at the front of recv_buffer_: a continuation adds  *)
(* its bytes; a first chunk too short for the VDAgentMessage header is   *)
(* dropped; otherwise its header starts the pending message.             *)
TakeChunk(st, size) ==
  LET chunk == SubSeq(st.buf, 2, 1 + size)
      rest  == SubSeq(st.buf, 2 + size, Len(st.buf))
  IN  IF st.has THEN Collect(st, rest, st.msg, st.data \o Values(chunk))
      ELSE IF size < 1 THEN [st EXCEPT !.buf = rest]
      ELSE Collect(st, rest, [type |-> chunk[1].t, size |-> chunk[1].n],
                   Values(SubSeq(chunk, 2, size)))

(* The while loop of OnDataReceived over [buf, has, msg, data, out]:     *)
(* take chunks while a whole one is buffered.                             *)
RECURSIVE Reassemble(_)
Reassemble(st) ==
  IF Len(st.buf) < 1 \/ Len(st.buf) < 1 + st.buf[1].n THEN st
  ELSE Reassemble(TakeChunk(st, st.buf[1].n))

(* HandleAnnounceCapabilitiesLocked over [caps, rcvd]: a payload shorter *)
(* than the request word is ignored; otherwise the words after it become *)
(* guest_caps_.                                                           *)
HandleAnnounceCapabilitiesLocked(st, d, size) ==
  IF size < 1 THEN st
  ELSE [st EXCEPT !.caps = SubSeq(d, 2, size), !.rcvd = TRUE]

(* Mutant of DispatchMessage: the reply flag is read from the caps word. *)
DispatchReadsCapsWord(st, m) ==
  IF m.type = "announce"
    THEN LET request == IF Len(m.payload) >= 2 THEN m.payload[2] ELSE 0
             h == HandleAnnounceCapabilitiesLocked(st, m.payload, Len(m.payload))
         IN  [h EXCEPT !.need = st.need \/ request # 0]
    ELSE [st EXCEPT !.events = @ \o ProcessMessage(st.caps, m)]

(* The completion branch of the loop over [caps, rcvd, need, events]: an *)
(* announce updates the guest's capabilities and remembers a request for *)
(* the host's; anything else goes to ProcessMessage under the same lock. *)
DispatchMessage(st, m) ==
  IF m.type = "announce"
    THEN LET request == IF Len(m.payload) >= 1 THEN m.payload[1] ELSE 0
             h == HandleAnnounceCapabilitiesLocked(st, m.payload, Len(m.payload))
         IN  [h EXCEPT !.need = st.need \/ request # 0]
    ELSE [st EXCEPT !.events = @ \o ProcessMessage(st.caps, m)]

(* The completion branch applied to each message the loop completes, in  *)
(* order.                                                                  *)
RECURSIVE DispatchAll(_, _)
DispatchAll(st, msgs) ==
  IF msgs = <<>> THEN st
  ELSE DispatchAll(DispatchMessage(st, Head(msgs)), Tail(msgs))

-----------------------------------------------------------------------------
(* OnDataReceived up to the unlock: append the n bytes to recv_buffer_,  *)
(* reassemble and dispatch every complete message.  The device thread    *)
(* does not return, and so takes no more data, until it has sent the     *)
(* reply a request asked for.                                             *)
OnDataReceived(n) ==
  /\ ~needSendCaps
  /\ LET r == Reassemble([buf |-> recvBuf \o SubSeq(wireIn, 1, n),
                          has |-> hasPending, msg |-> pendingMsg,
                          data |-> pendingData, out |-> <<>>])
         d == DispatchAll([caps |-> guestCaps, rcvd |-> capsReceived,
                           need |-> FALSE, events |-> <<>>], r.out)
     IN  /\ wireIn' = SubSeq(wireIn, n + 1, Len(wireIn))
         /\ recvBuf' = r.buf
         /\ hasPending' = r.has
         /\ pendingMsg' = r.msg
         /\ pendingData' = r.data
         /\ recvd' = recvd \o r.out
         /\ guestCaps' = d.caps
         /\ capsReceived' = d.rcvd
         /\ needSendCaps' = d.need
         /\ events' = events \o d.events
  /\ UNCHANGED <<wireOut, hostSent, hostCalls, guestSel, guestKnowsHost,
                 guestAsked, guestSent, guestMsgs, guestGot>>

(* The end of OnDataReceived: SendAnnounceCapabilities, after the unlock, *)
(* sends host_caps_ with request=0.                                        *)
SendAnnounceCapabilities ==
  /\ needSendCaps
  /\ needSendCaps' = FALSE
  /\ wireOut' = Append(wireOut, SendMessage("announce",
                                           AnnouncePayload(0, HostCapsWord)))
  /\ UNCHANGED <<wireIn, recvBuf, hasPending, pendingMsg, pendingData,
                 guestCaps, capsReceived, events, recvd, hostSent, hostCalls,
                 guestSel, guestKnowsHost, guestAsked, guestSent, guestMsgs,
                 guestGot>>

(* SendClipboardGrab, SendClipboardData, SendClipboardRequest and        *)
(* SendClipboardRelease, called by the IPC thread with the action e: each *)
(* returns without sending before the guest's capabilities arrived, and   *)
(* otherwise picks the layout from them and sends under mutex_.           *)
SendClipboard(e) ==
  /\ hostCalls < MaxHostCalls
  /\ hostCalls' = hostCalls + 1
  /\ IF capsReceived
       THEN LET sel == HasSelection(guestCaps) IN
            /\ wireOut' = Append(wireOut, SendMessage(e.kind, Payload(e, sel)))
            /\ hostSent' = Append(hostSent, Normalise(e, sel))
       ELSE UNCHANGED <<wireOut, hostSent>>
  /\ UNCHANGED <<wireIn, recvBuf, hasPending, pendingMsg, pendingData,
                 guestCaps, capsReceived, needSendCaps, events, recvd,
                 guestSel, guestKnowsHost, guestAsked, guestSent, guestMsgs,
                 guestGot>>

-----------------------------------------------------------------------------
(* The guest agent (spice-vdagent, outside this repository).  It chunks  *)
(* like SendMessage, announces its capabilities with request=1 (it needs *)
(* the host's before any clipboard message), uses the selection layout only when both sides have *)
(* announced the capability, and sends clipboard messages only once it   *)
(* has the host's capabilities.                                           *)
GuestClipboardActions ==
  {Ev("grab", s, <<t>>, 0, <<>>) : s \in Selections, t \in Types}
  \cup {Ev("data", s, <<>>, t, d) : s \in Selections, t \in Types,
                                    d \in {<<>>} \cup {<<b>> : b \in DataBytes}}
  \cup {Ev("request", s, <<>>, t, <<>>) : s \in Selections, t \in Types}
  \cup {Ev("release", s, <<>>, 0, <<>>) : s \in Selections}

GuestSend(type, payload) ==
  /\ Len(guestMsgs) < MaxGuestMsgs
  /\ wireIn' = wireIn \o SendMessage(type, payload)
  /\ guestMsgs' = Append(guestMsgs, [type |-> type, payload |-> payload])

GuestAnnounce(request) ==
  /\ GuestSend("announce", AnnouncePayload(request, IF guestSel THEN 1 ELSE 0))
  /\ guestAsked' = (guestAsked \/ request = 1)
  /\ UNCHANGED <<recvBuf, hasPending, pendingMsg, pendingData, guestCaps,
                 capsReceived, needSendCaps, events, recvd, wireOut, hostSent,
                 hostCalls, guestSel, guestKnowsHost, guestSent, guestGot>>

GuestClipboard(e) ==
  /\ guestKnowsHost
  /\ GuestSend(e.kind, Payload(e, guestSel))
  /\ guestSent' = Append(guestSent, Normalise(e, guestSel))
  /\ UNCHANGED <<recvBuf, hasPending, pendingMsg, pendingData, guestCaps,
                 capsReceived, needSendCaps, events, recvd, wireOut, hostSent,
                 hostCalls, guestSel, guestKnowsHost, guestAsked, guestGot>>

(* The guest reads one host message, written whole under mutex_: its   *)
(* type from the message header, its payload from the payload words of   *)
(* all its chunks.  It decodes it with the handlers' layouts, under the  *)
(* capabilities it knows of both sides.                                   *)
GuestRecv ==
  /\ wireOut # <<>>
  /\ LET m == [type |-> Head(wireOut)[2].t,
              payload |-> Values(SelectSeq(Head(wireOut),
                                           LAMBDA x : x.k = "w"))]
     IN  /\ wireOut' = Tail(wireOut)
         /\ IF m.type = "announce"
              THEN /\ guestKnowsHost' = TRUE
                   /\ UNCHANGED guestGot
              ELSE /\ guestGot' = guestGot \o
                       ProcessMessage(IF guestSel /\ guestKnowsHost
                                        THEN <<1>> ELSE <<>>, m)
                   /\ UNCHANGED guestKnowsHost
  /\ UNCHANGED <<wireIn, recvBuf, hasPending, pendingMsg, pendingData,
                 guestCaps, capsReceived, needSendCaps, events, recvd,
                 hostSent, hostCalls, guestSel, guestAsked, guestSent,
                 guestMsgs>>

(* The actions the manager forwards to SendClipboard*.                    *)
HostClipboardActions == GuestClipboardActions

Next ==
  \/ \E n \in 1 .. Len(wireIn) : OnDataReceived(n)
  \/ SendAnnounceCapabilities
  \/ \E e \in HostClipboardActions : SendClipboard(e)
  \/ GuestAnnounce(1)
  \/ \E e \in GuestClipboardActions : GuestClipboard(e)
  \/ GuestRecv

(* The device thread is called while guest data is pending and finishes *)
(* its call; the guest agent keeps reading its port.                      *)
Spec ==
  /\ Init /\ [][Next]_vars
  /\ WF_vars(\E n \in 1 .. Len(wireIn) : OnDataReceived(n))
  /\ WF_vars(SendAnnounceCapabilities)
  /\ WF_vars(GuestRecv)

-----------------------------------------------------------------------------
PayloadValues == {0, 1} \cup Selections \cup Types \cup DataBytes
MaxPayload == 3
WireSymbol == {CH(n) : n \in 0 .. MaxChunk}
              \cup {MH(k, n) : k \in Kinds, n \in 0 .. MaxPayload}
              \cup {W(v) : v \in PayloadValues}
WireMessage == [type : Kinds, payload : BoundedSeq(PayloadValues, MaxPayload)]

(* Every chunk either side puts on the wire fits VD_AGENT_MAX_CHUNK_SIZE, *)
(* and the handler's state has its declared shape.                        *)
TypeOK ==
  /\ wireIn \in Seq(WireSymbol)
  /\ wireOut \in Seq(Seq(WireSymbol))
  /\ recvBuf \in Seq(WireSymbol)
  /\ hasPending \in BOOLEAN
  /\ pendingData \in Seq(PayloadValues)
  /\ guestCaps \in Seq(PayloadValues)
  /\ capsReceived \in BOOLEAN
  /\ needSendCaps \in BOOLEAN
  /\ recvd \in Seq(WireMessage)
  /\ hostCalls \in 0 .. MaxHostCalls

Chan == INSTANCE IpcChannel WITH Message <- WireMessage, sent <- guestMsgs,
                                 delivered <- recvd

(* SendMessage's chunking and OnDataReceived's reassembly are inverse:   *)
(* the handler reassembles exactly the messages the guest sent, in       *)
(* order, each with its payload, and eventually all of them, however the *)
(* device splits the byte stream between calls.                          *)
ReassemblyRefinement == Chan!Spec

(* The clipboard callback receives exactly the guest's clipboard actions, *)
(* in order: the handlers pick the layout the guest used, from the        *)
(* capabilities the guest announced (HasCapability in the handlers).      *)
ClipboardEventsFaithful == IsPrefix(events, guestSent)

(* A guest that asks for the host's capabilities eventually has them:    *)
(* OnDataReceived remembers the request across the unlock and sends the  *)
(* reply.                                                                  *)
AnnounceAnswered == guestAsked ~> guestKnowsHost

(* The guest decodes every host clipboard message as the host meant it:  *)
(* the host uses the selection layout only once the guest knows it is    *)
(* negotiated.  SendClipboard* may run between OnDataReceived's unlock   *)
(* and its SendAnnounceCapabilities, and its message then overtakes the  *)
(* reply that tells the guest the host has the capability.                *)
HostClipboardFaithful == IsPrefix(guestGot, hostSent)
=============================================================================
