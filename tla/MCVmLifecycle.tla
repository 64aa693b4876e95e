---------------------------- MODULE MCVmLifecycle ----------------------------
(* Model values for VmLifecycle: two vCPUs, every stdin kind, and the PM  *)
(* writes that matter: S5 with SLP_EN, SLP_EN with S0, S5 without SLP_EN, *)
(* a PM1_STS clear and the reset byte.                                    *)
EXTENDS VmLifecycle

MCVCpus == {0, 1}
(* Every VmConfig: with and without a disk, networking and RAM above the *)
(* MMIO gap.                                                               *)
MCConfigs == [disk : BOOLEAN, net : BOOLEAN, highMem : BOOLEAN]
MCSlpTypS5 == 5
MCResetValue == 6
MCAcpiWrites ==
  { <<4, 2, 8192 + 5 * 1024>>,    \* SLP_EN | SLP_TYP=5
    <<4, 2, 8192>>,               \* SLP_EN | SLP_TYP=0
    <<4, 2, 5 * 1024>>,           \* SLP_TYP=5 without SLP_EN
    <<0, 4, 65536 + 1>>,          \* clear STS bit 0, enable bit 0
    <<8, 1, 6>> }                 \* RESET_REG
=============================================================================
