\* The input path: key events and console bytes reach the guest intact.
CONSTANTS
  Keys <- MCKeys
  Buttons <- MCButtons
  MaxUserSteps = 3
  ReadSizes <- MCReadSizes
  ConsoleInputs <- MCConsoleInputs
  MaxConsoleInputs = 2
  ControlRequests <- MCControlRequests
  MaxControlRequests = 2
  MaxManagerRequests = 2
  HexAlphabet <- MCHexAlphabet
  FieldTexts <- MCFieldTexts
  MaxHexLength = 4
SPECIFICATION SystemSpec
CHECK_DEADLOCK FALSE
INVARIANT TypeOK
INVARIANT HexCodecCorrect
INVARIANT KeyCodesDistinct
PROPERTY ConsoleFaithful
PROPERTY KeyDelivery
PROPERTY ControlAnswered
