CONSTANTS
    Models = {m1, m2}
    LEGACY_FALLBACK_MODEL = gpt5
    Usages <- MCUsages
    MAX_READ_BYTES = 1
    PeekMax = 5
    PeekWindow = 1
    OtherLengths = {0, 3}
    TornKinds = {"token_count"}
    MaxLines = 3
    MaxMishaps = 1
SPECIFICATION Spec
INVARIANTS WindowsExact BilledOnce NeverMislabelled
CHECK_DEADLOCK FALSE
