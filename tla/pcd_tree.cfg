SPECIFICATION Spec
CONSTANTS
    StepCounts = {1, 2, 3, 4, 5, 6, 7, 8, 9, 11, 12, 15, 16}
    InitialInput = 0
    HaltsAfter = 8
    StepCircuit <- CounterCircuit
    ComputeStep <- Counter
INVARIANT RootProvesItsSteps
PROPERTY RootVerdict
CHECK_DEADLOCK FALSE
