SPECIFICATION Spec
CONSTANTS
    Scans = {1, 2}
    MaxReplays = 1
PROPERTIES
    TerminalMeansUnpublished
CHECK_DEADLOCK FALSE
