SPECIFICATION Spec
CONSTANTS
    a1 = a1
    a2 = a2
    Analysts <- MCAnalysts
    MaxCalls = 4
    Width = 2
    FailedCallLimit = 2
    MaxAttempts = 2
    Lead = Lead
INVARIANTS
    EventsFindTheirPrompt
    FailedProgramsAreBounded
PROPERTY
    AttemptsEnd
