\* ~Vm after Run returned, for every kind of stdin.
CONSTANTS
  VCpus <- MCVCpus
  Configs <- MCConfigs
  SlpTypS5 <- MCSlpTypS5
  ResetValue <- MCResetValue
  AcpiWrites <- MCAcpiWrites
  StdinModes = {"console", "pipe", "none"}
  ControllerStopPhases = {"joinVcpus"}
SPECIFICATION Spec
PROPERTY DestructorCompletes
