CONSTANTS
  MaxChunk = 3
  Selections <- MCSelections
  Types <- MCTypes
  DataBytes <- MCDataBytes
  MaxGuestMsgs = 3
  MaxHostCalls = 1
SPECIFICATION Spec
CHECK_DEADLOCK FALSE
INVARIANT TypeOK
INVARIANT ClipboardEventsFaithful
PROPERTY ReassemblyRefinement
PROPERTY AnnounceAnswered
