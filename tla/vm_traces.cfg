SPECIFICATION Spec
CONSTANTS
    ByteBits = 2
    LineBytes = 16
    Images <- TraceImages
    Labels <- MCLabels
    K = 2
    MaxTraceLen = 8
CHECK_DEADLOCK FALSE
INVARIANTS ReplayFollowsVm CircuitAccepts ProfileIsElapsed PathsVerify
PROPERTY TraceIsProvable
