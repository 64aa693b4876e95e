------------------------------- MODULE IoApic -------------------------------
(***************************************************************************)
(* The I/O APIC (src/core/device/irq/ioapic.cpp) and the interrupt path   *)
(* into it, Vm::InjectIrq (src/vmm/vm.cpp).                               *)
(*                                                                         *)
(* The guest selects a register by writing IOREGSEL (offset 0x00) and     *)
(* accesses it through IOWIN (offset 0x10); offset 0x40 is the EOI        *)
(* register.  Every MMIO access runs under the device mutex, so each one  *)
(* is a single step; the index latch is shared by all vCPUs.  Device      *)
(* threads call InjectIrq(pin), which copies the pin's entry under the    *)
(* mutex and, after releasing it, asks the hypervisor for a fixed         *)
(* interrupt when the copy is unmasked with a non-zero vector.            *)
(*                                                                         *)
(* A 32-bit register value is abstracted to the fields the code reads     *)
(* from it: the low byte (vector), bit 11 (destination mode), bit 14      *)
(* (Remote IRR), bit 15 (trigger mode), bit 16 (mask) and the top byte    *)
(* (bits 31:24: the destination in a high half, the ID in register 0).   *)
(***************************************************************************)
EXTENDS Naturals, FiniteSets

CONSTANTS
  NumPins,        \* kMaxRedirEntries
  Words,          \* the 32-bit values the guest writes through IOWIN
  SelectValues,   \* the values the guest writes to IOREGSEL
  EoiVectors,     \* the vectors the guest writes to the EOI register
  InjectPins      \* the pins device threads raise (may be out of range)

Word == [vector : Nat, destMode : {0, 1}, remoteIrr : {0, 1},
         trigger : {"edge", "level"}, mask : {0, 1}, top : Nat]

ASSUME Words \subseteq Word

VARIABLES
  index,        \* index_: the IOREGSEL latch
  id,           \* id_
  table,        \* redir_table_: [low, high] halves of each entry
  lastWritten,  \* history: the last word written through IOWIN per register
  unacked,      \* history: level-triggered pins delivered and not yet EOIed
  irr,          \* the vectors requested of the hypervisor, not yet taken
  copying,      \* the pins whose device thread holds a copy of the entry
  copied        \* the low word of each such copy

vars == <<index, id, table, lastWritten, unacked, irr, copying, copied>>

Pins == 0 .. NumPins - 1
kRegId == 0
kRegVer == 1
kRegArb == 2
kRegRedTbl == 16
RedirIndices == kRegRedTbl .. kRegRedTbl + 2 * NumPins - 1

(* A word with only the top byte set (a value shifted left by 24).        *)
TopWord(t) == [vector |-> 0, destMode |-> 0, remoteIrr |-> 0,
               trigger |-> "edge", mask |-> 0, top |-> t]
ZeroWord == TopWord(0)
(* 0x00170020: version 0x20, 24 entries; no field the model reads is set. *)
VersionWord == [ZeroWord EXCEPT !.vector = 32]
(* ResetRedirTable: 0x0000000000010000, only the mask bit set.            *)
ResetEntry == [low |-> [ZeroWord EXCEPT !.mask = 1], high |-> ZeroWord]

TypeOK ==
  /\ index \in 0 .. 255
  /\ id \in 0 .. 15
  /\ table \in [Pins -> [low : Word, high : Word]]
  /\ lastWritten \in [RedirIndices -> Word]
  /\ unacked \subseteq Pins
  /\ irr \subseteq Nat
  /\ copying \subseteq Pins
  /\ copied \in [Pins -> Word]

Init ==
  /\ index = 0
  /\ id = 0
  /\ table = [p \in Pins |-> ResetEntry]
  /\ lastWritten = [i \in RedirIndices |->
                      IF (i - kRegRedTbl) % 2 = 0 THEN ResetEntry.low
                                                  ELSE ResetEntry.high]
  /\ unacked = {}
  /\ irr = {}
  /\ copying = {}
  /\ copied = [p \in Pins |-> ResetEntry.low]

(* The entry and the half a register index names.                         *)
EntryOf(i) == (i - kRegRedTbl) \div 2
IsHigh(i) == (i - kRegRedTbl) % 2 = 1

(* IoApic::ReadRegister: the value IOWIN returns for the latched index.   *)
ReadRegister(i) ==
  CASE i = kRegId  -> TopWord(id)
    [] i = kRegVer -> VersionWord
    [] i = kRegArb -> ZeroWord
    [] i \in RedirIndices ->
         IF IsHigh(i) THEN table[EntryOf(i)].high ELSE table[EntryOf(i)].low
    [] OTHER -> ZeroWord

-----------------------------------------------------------------------------
(* MmioWrite at offset 0x00: latch the low byte of the value.             *)
SelectRegister(value) ==
  /\ index' = value % 256
  /\ UNCHANGED <<id, table, lastWritten, unacked, irr, copying, copied>>

(* Mutant of WriteRegister: the ID is stored without the 4-bit mask.      *)
WriteRegisterIdUnmasked(w) ==
  /\ id' = IF index = kRegId THEN w.top ELSE id
  /\ UNCHANGED <<index, table, lastWritten, unacked, irr, copying, copied>>

(* Mutant of WriteRegister: a low-half write stores the value as the whole *)
(* 64-bit entry, dropping the mask that keeps bits 63:32.                  *)
WriteRegisterLowClobbersHigh(w) ==
  /\ table' = IF index \in RedirIndices
                THEN [table EXCEPT ![EntryOf(index)] =
                        IF IsHigh(index) THEN [@ EXCEPT !.high = w]
                                         ELSE [low |-> w, high |-> ZeroWord]]
                ELSE table
  /\ lastWritten' = IF index \in RedirIndices
                      THEN [lastWritten EXCEPT ![index] = w]
                      ELSE lastWritten
  /\ UNCHANGED <<index, id, unacked, irr, copying, copied>>

(* IoApic::WriteRegister, reached by an MmioWrite at offset 0x10.          *)
WriteRegister(w) ==
  /\ id' = IF index = kRegId THEN w.top % 16 ELSE id
  /\ table' = IF index \in RedirIndices
                THEN [table EXCEPT ![EntryOf(index)] =
                        IF IsHigh(index) THEN [@ EXCEPT !.high = w]
                                         ELSE [@ EXCEPT !.low = w]]
                ELSE table
  /\ lastWritten' = IF index \in RedirIndices
                      THEN [lastWritten EXCEPT ![index] = w]
                      ELSE lastWritten
  /\ UNCHANGED <<index, unacked, irr, copying, copied>>

(* MmioWrite at offset 0x40: clear Remote IRR on every entry whose vector *)
(* equals the written vector.                                              *)
Eoi(vector) ==
  /\ table' = [p \in Pins |->
                 IF table[p].low.vector = vector
                   THEN [table[p] EXCEPT !.low.remoteIrr = 0]
                   ELSE table[p]]
  /\ unacked' = {p \in unacked : table[p].low.vector # vector}
  /\ UNCHANGED <<index, id, lastWritten, irr, copying, copied>>

(* Vm::InjectIrq on a device thread, in two steps.  IoApic::GetRedirEntry *)
(* refuses an out-of-range pin (nothing happens) and otherwise copies the *)
(* pin's entry under the device mutex ...                                  *)
GetRedirEntry(irq) ==
  /\ irq \in Pins
  /\ irq \notin copying
  /\ copying' = copying \cup {irq}
  /\ copied' = [copied EXCEPT ![irq] = table[irq].low]
  /\ UNCHANGED <<index, id, table, lastWritten, unacked, irr>>

(* InjectIrq returns: the copy, a local of the call, is gone.              *)
Release(irq) ==
  /\ copying' = copying \ {irq}
  /\ copied' = [copied EXCEPT ![irq] = ResetEntry.low]

(* ... and after the mutex is released the copy decides: a masked entry or *)
(* vector 0 is dropped ...                                                  *)
DropIrq(irq) ==
  /\ irq \in copying
  /\ copied[irq].mask = 1 \/ copied[irq].vector = 0
  /\ Release(irq)
  /\ UNCHANGED <<index, id, table, lastWritten, unacked, irr>>

(* ... and otherwise WHvRequestInterrupt asks for a fixed interrupt built *)
(* from the copy.  Nothing in the entry is changed.  The destination and  *)
(* delivery fields of the request are not told apart by the properties;  *)
(* the hypervisor holds the requested vector until a vCPU takes it, and a *)
(* request for a vector already pending is absorbed.                      *)
InjectIrq(irq) ==
  /\ irq \in copying
  /\ LET rte == copied[irq] IN
       /\ rte.mask = 0
       /\ rte.vector # 0
       /\ irr' = irr \cup {rte.vector}
       /\ unacked' = IF rte.trigger = "level" THEN unacked \cup {irq} ELSE unacked
  /\ Release(irq)
  /\ UNCHANGED <<index, id, table, lastWritten>>

(* A vCPU takes a pending interrupt (the hypervisor and the guest).       *)
Accept(vector) ==
  /\ vector \in irr
  /\ irr' = irr \ {vector}
  /\ UNCHANGED <<index, id, table, lastWritten, unacked, copying, copied>>

Next ==
  \/ \E v \in SelectValues : SelectRegister(v)
  \/ \E w \in Words : WriteRegister(w)
  \/ \E v \in EoiVectors : Eoi(v)
  \/ \E p \in InjectPins : GetRedirEntry(p) \/ DropIrq(p) \/ InjectIrq(p)
  \/ \E v \in irr : Accept(v)

Spec == Init /\ [][Next]_vars

-----------------------------------------------------------------------------
(* A word as the guest reads it back: Remote IRR is read-only to the guest *)
(* and cleared by EOI, so it is not part of what a write stores.           *)
Stored(w) == [w EXCEPT !.remoteIrr = 0]

(* Reading back each half of each redirection entry through IOWIN yields  *)
(* the last value written to that half and nothing written to the other  *)
(* half or another entry (WriteRegister's half masks, ReadRegister).      *)
RteReadBack ==
  \A i \in RedirIndices : Stored(ReadRegister(i)) = Stored(lastWritten[i])

(* A level-triggered pin is not delivered again while the guest has not  *)
(* yet EOIed its last delivery: the entry's Remote IRR holds it back.     *)
LevelHeldUntilEoi ==
  [][\A p \in Pins :
       (p \in unacked /\ table[p].low.trigger = "level")
         => ~InjectIrq(p)]_vars
=============================================================================
