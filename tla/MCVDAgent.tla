----------------------------- MODULE MCVDAgent -----------------------------
(* VDAgent with one selection, one clipboard type and one data value,    *)
(* chosen apart from each other and from 0 so that a misread field shows. *)
EXTENDS VDAgent

MCSelections == {1}
MCTypes == {2}
MCDataBytes == {3}
=============================================================================
