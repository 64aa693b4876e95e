----------------------------- MODULE IpcChannel -----------------------------
(***************************************************************************)
(* What the control pipe promises its reader: the messages the manager     *)
(* sends are handed to the handler in the order sent, each exactly once,   *)
(* with its own payload, and every sent message is eventually handed on.   *)
(* One step may hand on several messages, as one read may complete them.  *)
(***************************************************************************)
EXTENDS Naturals, Sequences

CONSTANT Message

VARIABLES sent, delivered

Init == sent = <<>> /\ delivered = <<>>

Send(m) ==
  /\ sent' = Append(sent, m)
  /\ UNCHANGED delivered

Deliver ==
  /\ \E n \in Len(delivered) + 1 .. Len(sent) : delivered' = SubSeq(sent, 1, n)
  /\ UNCHANGED sent

Next == (\E m \in Message : Send(m)) \/ Deliver

Spec == Init /\ [][Next]_<<sent, delivered>> /\ WF_<<sent, delivered>>(Deliver)
=============================================================================
