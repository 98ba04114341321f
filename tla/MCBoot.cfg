SPECIFICATION Spec
CONSTANTS
    MaxDevices = 3
    Media <- MCMedia
\* the script ends
CHECK_DEADLOCK FALSE
INVARIANTS SysinitHasImage FirstMediumDecides MediumFreed
