\* Stop paths of the VM: every stop request ends Run, exit code = error.
CONSTANTS
  VCpus <- MCVCpus
  Configs <- MCConfigs
  SlpTypS5 <- MCSlpTypS5
  ResetValue <- MCResetValue
  AcpiWrites <- MCAcpiWrites
  StdinModes = {"console", "pipe", "none"}
  ControllerStopPhases = {"joinVcpus", "returned", "joinInput"}
SPECIFICATION Spec
INVARIANT TypeOK
INVARIANT ExitCodeReportsError
 
PROPERTY StopTerminatesRun
