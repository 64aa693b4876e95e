------------------------------- MODULE AcpiPm -------------------------------
(***************************************************************************)
(* The ACPI PM1 register block (src/core/device/acpi/acpi_pm.cpp).        *)
(* Its state is the three 16-bit registers PM1_STS, PM1_EN and PM1_CNT;   *)
(* a guest PIO write updates them and may fire the shutdown or the reset  *)
(* callback.  The module is a component: the composing module owns the   *)
(* variable and decides what a fired callback does.                        *)
(***************************************************************************)
EXTENDS Naturals, Bitwise

CONSTANTS
  SlpTypS5,     \* kSlpTypS5: the SLP_TYP code the DSDT advertises for S5
  ResetValue    \* kResetValue: the byte that requests a reset via RESET_REG

VARIABLE acpi   \* [sts, en, cnt], each a 16-bit register value

Word16 == 0 .. 65535
U16(x) == x % 65536                    \* static_cast<uint16_t>
SlpEn(value) == (value \div 8192) % 2 = 1        \* bit 13
SlpTyp(value) == (value \div 1024) % 8           \* bits 12:10

TypeOK == acpi \in [sts : Word16, en : Word16, cnt : Word16]

(* Power-on values: nothing pending, nothing enabled, SCI_EN set in PM1_CNT. *)
Init == acpi = [sts |-> 0, en |-> 0, cnt |-> 1]

(* PM1_CNT write with SLP_EN and SLP_TYP = S5 calls shutdown_cb_.          *)
ShutdownFires(offset, value) ==
  offset = 4 /\ SlpEn(value) /\ SlpTyp(value) = SlpTypS5

(* RESET_REG write of kResetValue calls reset_cb_.                         *)
ResetFires(offset, value) ==
  offset = 8 /\ value % 256 = ResetValue

(* AcpiPm::PioWrite: the register update of one guest write.  PM1_STS is  *)
(* write-1-to-clear and a 32-bit write also loads PM1_EN from the upper   *)
(* half; PM1_CNT keeps SCI_EN set.                                         *)
PioWrite(offset, size, value) ==
  acpi' = CASE offset = 0 ->
                 [acpi EXCEPT !.sts = @ & (65535 - U16(value)),
                              !.en  = IF size = 4 THEN U16(value \div 65536)
                                                  ELSE @]
            [] offset = 2 -> [acpi EXCEPT !.en = U16(value)]
            [] offset = 4 -> [acpi EXCEPT !.cnt = U16(value) | 1]
            [] OTHER      -> acpi
=============================================================================
