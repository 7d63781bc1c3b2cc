SPECIFICATION Spec
CONSTANT RunLengths = {1, 2, 3, 4, 7, 8, 15, 16, 40}
INVARIANT LabelNamesStep
PROPERTY RootProvesTrace
CHECK_DEADLOCK FALSE
