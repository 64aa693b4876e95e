\* RunLoop framing: in-order, exact delivery over any read chunking.
CONSTANTS
  Msgs <- MCMsgs
  PayloadBytes <- MCPayloadBytes
  MaxPayload = 2
  MaxWrites = 3
  SendMalformed = TRUE
SPECIFICATION Spec
INVARIANT TypeOK
 
