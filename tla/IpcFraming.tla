----------------------------- MODULE IpcFraming -----------------------------
(***************************************************************************)
(* The control pipe's reader, RuntimeControlService::RunLoop              *)
(* (src/runtime/runtime_service.cpp), against the manager writing encoded *)
(* messages into the pipe.                                                 *)
(*                                                                         *)
(* A message on the wire is a header line ending in a newline, followed   *)
(* by payload_size raw payload bytes.  A header's text is one symbol: the *)
(* reader only searches it for the newline and decodes it whole.  Payload *)
(* bytes are raw, so one of them may be a newline byte.  A read returns   *)
(* any non-empty prefix of what the pipe holds (PeekNamedPipe then         *)
(* ReadFile), and the parse loop then runs over the pending buffer until  *)
(* it needs more bytes.                                                    *)
(***************************************************************************)
EXTENDS Naturals, Sequences, SequencesExt

CONSTANTS
  Msgs,           \* message identities (kind, channel, type, ids)
  PayloadBytes,   \* payload byte values; "nl" is the newline byte
  MaxPayload,     \* bound on payload_size
  MaxWrites,      \* bound on the messages the manager writes
  SendMalformed   \* whether the manager may write an undecodable line

ASSUME "nl" \in PayloadBytes

VARIABLES
  pipe,           \* bytes written by the manager and not yet read
  pending,        \* pending: bytes read and not yet consumed by the parser
  payloadNeeded,  \* payload_needed
  pendingMsg,     \* pending_msg: the header awaiting its payload
  handled,        \* history: the messages passed to HandleMessage, in order
  sent,           \* history: the well-formed messages the manager wrote
  writes          \* history: the number of lines the manager wrote

vars == <<pipe, pending, payloadNeeded, pendingMsg, handled, sent, writes>>

Message == [m : Msgs, payload : BoundedSeq(PayloadBytes, MaxPayload)]
NoMsg == "none"
(* The payload_size field of a header: absent (<<>>) or <<n>>.            *)
PayloadSizeField == {<<>>} \cup {<<n>> : n \in 0 .. MaxPayload}

(* A wire symbol: a payload byte, or the text of a header line.           *)
Byte(b) == [t |-> b, m |-> NoMsg, size |-> <<>>]
Nl == Byte("nl")
Hdr(m, size) == [t |-> "hdr", m |-> m, size |-> size]
NoHeader == Hdr(NoMsg, <<>>)
Garbage == [t |-> "bad", m |-> NoMsg, size |-> <<>>]
Symbol == {Byte(b) : b \in PayloadBytes} \cup {Garbage}
            \cup {Hdr(m, s) : m \in Msgs, s \in PayloadSizeField}

TypeOK ==
  /\ pipe \in Seq(Symbol)
  /\ pending \in Seq(Symbol)
  /\ payloadNeeded \in 0 .. MaxPayload
  /\ pendingMsg \in {NoHeader} \cup {Hdr(m, <<s>>) : m \in Msgs, s \in 1 .. MaxPayload}
  /\ handled \in Seq(Message)
  /\ sent \in Seq(Message)
  /\ writes \in 0 .. MaxWrites

Init ==
  /\ pipe = <<>>
  /\ pending = <<>>
  /\ payloadNeeded = 0
  /\ pendingMsg = NoHeader
  /\ handled = <<>>
  /\ sent = <<>>
  /\ writes = 0

-----------------------------------------------------------------------------
(* ipc::Encode: the header line, then the payload bytes.  A message with  *)
(* no payload may carry payload_size=0 or leave the field out.            *)
(* size is the header's payload_size field.                               *)
Encode(msg, size) ==
  <<Hdr(msg.m, size), Nl>> \o [i \in DOMAIN msg.payload |-> Byte(msg.payload[i])]

(* ipc::Decode of one line (newline included): only a lone header decodes. *)
Decodes(line) == Len(line) = 2 /\ line[1].t = "hdr"

(* Mutant of Parse: a header that declares a payload is not erased from   *)
(* pending, so the payload is taken from the header line's bytes.        *)
RECURSIVE ParseKeepsHeaderLine(_)
ParseKeepsHeaderLine(st) ==
  IF st.pending = <<>> THEN st
  ELSE IF st.needed > 0 THEN
    IF Len(st.pending) < st.needed THEN st
    ELSE ParseKeepsHeaderLine(
           [pending |-> SubSeq(st.pending, st.needed + 1, Len(st.pending)),
            needed  |-> 0, msg |-> st.msg,
            out     |-> Append(st.out, [m |-> st.msg.m,
                         payload |-> [i \in 1 .. st.needed |-> st.pending[i].t]])])
  ELSE LET nl == SelectInSeq(st.pending, LAMBDA s : s = Nl) IN
    IF nl = 0 THEN st
    ELSE LET line == SubSeq(st.pending, 1, nl)
             rest == SubSeq(st.pending, nl + 1, Len(st.pending))
             h    == line[1]
         IN  IF ~Decodes(line) THEN ParseKeepsHeaderLine([st EXCEPT !.pending = rest])
             ELSE IF h.size # <<>> /\ h.size[1] > 0
               THEN ParseKeepsHeaderLine([st EXCEPT !.needed = h.size[1], !.msg = h])
               ELSE ParseKeepsHeaderLine([st EXCEPT !.pending = rest,
                      !.out = Append(@, [m |-> h.m, payload |-> <<>>])])

(* Mutant of Parse: the newline search runs before the payload check, so  *)
(* a newline byte inside a payload ends a "line".                          *)
RECURSIVE ParseLinesFirst(_)
ParseLinesFirst(st) ==
  LET nl == SelectInSeq(st.pending, LAMBDA s : s = Nl) IN
  IF st.pending = <<>> THEN st
  ELSE IF nl > 0 /\ st.needed > 0 THEN
    ParseLinesFirst([st EXCEPT !.pending = SubSeq(@, nl + 1, Len(@))])
  ELSE IF st.needed > 0 THEN
    IF Len(st.pending) < st.needed THEN st
    ELSE ParseLinesFirst(
           [pending |-> SubSeq(st.pending, st.needed + 1, Len(st.pending)),
            needed  |-> 0, msg |-> st.msg,
            out     |-> Append(st.out, [m |-> st.msg.m,
                         payload |-> [i \in 1 .. st.needed |-> st.pending[i].t]])])
  ELSE IF nl = 0 THEN st
    ELSE LET line == SubSeq(st.pending, 1, nl)
             rest == SubSeq(st.pending, nl + 1, Len(st.pending))
             h    == line[1]
         IN  IF ~Decodes(line) THEN ParseLinesFirst([st EXCEPT !.pending = rest])
             ELSE IF h.size # <<>> /\ h.size[1] > 0
               THEN ParseLinesFirst([st EXCEPT !.pending = rest,
                                              !.needed = h.size[1], !.msg = h])
               ELSE ParseLinesFirst([st EXCEPT !.pending = rest,
                      !.out = Append(@, [m |-> h.m, payload |-> <<>>])])

(* The parse loop of RunLoop over the reader's state [pending, needed,   *)
(* msg, out]; out collects the messages passed to HandleMessage, and a   *)
(* line that does not decode is skipped.                                   *)
RECURSIVE Parse(_)
Parse(st) ==
  IF st.pending = <<>> THEN st
  ELSE IF st.needed > 0 THEN
    IF Len(st.pending) < st.needed THEN st
    ELSE Parse([pending |-> SubSeq(st.pending, st.needed + 1, Len(st.pending)),
                needed  |-> 0,
                msg     |-> st.msg,
               
                out     |-> Append(st.out,
                             [m |-> st.msg.m,
                              payload |-> [i \in 1 .. st.needed |->
                                             st.pending[i].t]])])
  ELSE LET nl == SelectInSeq(st.pending, LAMBDA s : s = Nl) IN
    IF nl = 0 THEN st
    ELSE LET line == SubSeq(st.pending, 1, nl)
             rest == SubSeq(st.pending, nl + 1, Len(st.pending))
             h    == line[1]
         IN  IF ~Decodes(line) THEN Parse([st EXCEPT !.pending = rest])
             ELSE IF h.size # <<>> /\ h.size[1] > 0
               THEN Parse([st EXCEPT !.pending = rest, !.needed = h.size[1],
                                     !.msg = h])
               ELSE Parse([st EXCEPT !.pending = rest,
                                     !.out = Append(@, [m |-> h.m,
                                                        payload |-> <<>>])])

(* One pass of the RunLoop body that reads: take the first n bytes of the *)
(* pipe, append them to pending, and run the parse loop.                  *)
ReadChunk(n) ==
  LET st == Parse([pending |-> pending \o SubSeq(pipe, 1, n),
                   needed  |-> payloadNeeded, msg |-> pendingMsg,
                   out |-> <<>>])
  IN  /\ pipe' = SubSeq(pipe, n + 1, Len(pipe))
      /\ pending' = st.pending
      /\ payloadNeeded' = st.needed
      /\ pendingMsg' = IF st.needed > 0 THEN st.msg ELSE NoHeader
      /\ handled' = handled \o st.out
      /\ UNCHANGED <<sent, writes>>

(* A pass of the RunLoop body that finds nothing available: Sleep(1).    *)
PollEmpty ==
  /\ pipe = <<>>
  /\ UNCHANGED vars

(* The manager writes one well-formed message.                             *)
WriteMessage(msg, size) ==
  /\ writes < MaxWrites
  /\ pipe' = pipe \o Encode(msg, size)
  /\ sent' = Append(sent, msg)
  /\ writes' = writes + 1
  /\ UNCHANGED <<pending, payloadNeeded, pendingMsg, handled>>

(* The manager writes a line ipc::Decode rejects.                          *)
WriteMalformed ==
  /\ SendMalformed
  /\ writes < MaxWrites
  /\ pipe' = pipe \o <<Garbage, Nl>>
  /\ writes' = writes + 1
  /\ UNCHANGED <<pending, payloadNeeded, pendingMsg, handled, sent>>

Next ==
  \/ \E msg \in Message :
       \E size \in IF msg.payload = <<>> THEN {<<>>, <<0>>}
                                          ELSE {<<Len(msg.payload)>>} :
         WriteMessage(msg, size)
  \/ WriteMalformed
  \/ \E n \in 1 .. Len(pipe) : ReadChunk(n)
  \/ PollEmpty

(* The reader thread polls the pipe every millisecond while running_, so  *)
(* a read of the available bytes keeps being taken.                       *)
Spec == Init /\ [][Next]_vars /\ WF_vars(\E n \in 1 .. Len(pipe) : ReadChunk(n))

-----------------------------------------------------------------------------
Chan == INSTANCE IpcChannel WITH Message <- Message, sent <- sent,
                                 delivered <- handled

(* The reader hands HandleMessage exactly the well-formed messages the    *)
(* manager wrote, in order, each with its own payload, and eventually all *)
(* of them, however ReadFile splits the stream and whatever bytes the     *)
(* payloads hold (the header/payload alternation of the parse loop).      *)
ChannelRefinement == Chan!Spec
=============================================================================
