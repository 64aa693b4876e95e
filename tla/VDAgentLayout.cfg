CONSTANTS
  MaxChunk = 3
  Selections <- MCSelections
  Types <- MCTypes
  DataBytes <- MCDataBytes
  MaxGuestMsgs = 2
  MaxHostCalls = 1
SPECIFICATION Spec
CHECK_DEADLOCK FALSE
INVARIANT HostClipboardFaithful
