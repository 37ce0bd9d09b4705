SPECIFICATION Spec
CONSTANT Registers <- MCRegisters
INVARIANT SequenceIsSum
INVARIANT YIsMaximal
INVARIANT TableIsPeriodic
INVARIANT OneShiftIsEnough
CHECK_DEADLOCK FALSE
