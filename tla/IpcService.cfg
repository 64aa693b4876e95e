\* IPC service and display path: Stop returns, console output is
\* delivered, and every frame the manager blits lands where it was drawn.
CONSTANTS
  Senders <- MCSenders
  Frames <- MCFrames
  MaxEvents = 2
  MaxConsole = 2
  PartialWrites = FALSE
SPECIFICATION PathSpec
INVARIANT PathTypeOK
INVARIANT BlitPlacesRect
PROPERTY StopCompletes
PROPERTY ConsoleDelivered
