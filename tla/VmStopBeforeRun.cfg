\* A controller "stop" that arrives after the VM is attached but before Run.
CONSTANTS
  VCpus <- MCVCpus
  Configs <- MCConfigs
  SlpTypS5 <- MCSlpTypS5
  ResetValue <- MCResetValue
  AcpiWrites <- MCAcpiWrites
  StdinModes = {"console"}
  ControllerStopPhases = {"created", "joinVcpus"}
SPECIFICATION Spec
PROPERTY StopTerminatesRun
