------------------------------- MODULE MCIoApic -------------------------------
(* Model values for IoApic: two entries, the window words that exercise  *)
(* every field the code reads (vector 0, masked, edge and level, both     *)
(* destination modes, a top byte wider than the 4-bit ID, Remote IRR set  *)
(* by the guest), every register class as an index, including one past  *)
(* the table and one above the 8-bit latch, and an out-of-range pin.      *)
EXTENDS IoApic

MCNumPins == 2
MCWords ==
  { [vector |-> 48, destMode |-> 0, remoteIrr |-> 0, trigger |-> "edge",
     mask |-> 0, top |-> 1],
    [vector |-> 49, destMode |-> 1, remoteIrr |-> 1, trigger |-> "level",
     mask |-> 0, top |-> 17],
    [vector |-> 48, destMode |-> 0, remoteIrr |-> 0, trigger |-> "level",
     mask |-> 1, top |-> 0],
    [vector |-> 0, destMode |-> 0, remoteIrr |-> 0, trigger |-> "edge",
     mask |-> 0, top |-> 0] }
MCSelectValues == {0, 1, 16, 17, 18, 19, 20, 256 + 17}
MCEoiVectors == {0, 48, 49}
MCInjectPins == {0, 2}
=============================================================================
