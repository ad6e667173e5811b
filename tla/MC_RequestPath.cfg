SPECIFICATION Spec
CONSTANTS
    Trusted = {"lb"}
    Configs <- MCConfigs
    Requests <- MCRequests
    MAX_ATTEMPTS = 2
    Statuses = {100, 101, 200}
INVARIANTS
    GuardsHeld
    HeadsHonest
    BodyWithinLimit
    AnsweredOnce
