CONSTANTS
    Dialects = {"openai", "anthropic"}
    Frames <- MCFrames
    ToolIndexes = {0, 1}
    MaxFrames = 4
SPECIFICATION Spec
INVARIANTS RelayInv SameAsUnstreamed
PROPERTIES MessageSpec
CHECK_DEADLOCK FALSE
