\* Ctrl+Alt or a focus change while a key or button is held: does the guest see it released?
CONSTANTS
  Keys <- MCKeys
  Buttons <- MCButtons
  MaxUserSteps = 5
  ReadSizes <- MCReadSizes
  ConsoleInputs <- MCConsoleInputs
  MaxConsoleInputs = 0
  ControlRequests <- MCControlRequests
  MaxControlRequests = 0
  MaxManagerRequests = 0
  HexAlphabet <- MCHexAlphabet
  FieldTexts <- MCFieldTexts
  MaxHexLength = 2
SPECIFICATION SystemSpec
CHECK_DEADLOCK FALSE
INVARIANT NoStuckInput
