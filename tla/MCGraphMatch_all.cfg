SPECIFICATION Spec
CONSTANT Inputs <- MCInputs
INVARIANTS EachNodeOnce SkippedOnlyAtTail StaleSlotOnlyInEnums
CHECK_DEADLOCK FALSE
