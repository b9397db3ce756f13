CONSTANTS
    UserContents <- MCUserContents
    Texts = {"", "x"}
    MaxCalls = 2
    MaxTurns = 5
    Settings <- MCSettings
    NoControls <- Nothing
    DefaultLimit = "32000"
SPECIFICATION Spec
INVARIANTS ResultsFollowCalls ConversationIntact SettingsReachUpstream
CHECK_DEADLOCK FALSE
