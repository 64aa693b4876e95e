\* VM list drag and drop: every drop moves the VM the user grabbed.
CONSTANTS
  v1 = v1
  v2 = v2
  v3 = v3
  Vms <- MCVms
  MaxUserSteps = 6
  MaxPopulates = 2
SPECIFICATION Spec
CHECK_DEADLOCK FALSE
INVARIANT TypeOK
INVARIANT DropMatchesGesture
