---------------------------- MODULE MCVmListView ----------------------------
EXTENDS VmListView

CONSTANTS v1, v2, v3

MCVms == {v1, v2, v3}
=============================================================================
