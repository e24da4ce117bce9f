\* Two changes, coalesced or under way at once, and a fetch before and between.
CONSTANTS
    MaxEdits = 2
    MaxFetches = 2
    MaxFails = 1
    MaxStops = 1
SPECIFICATION Spec
INVARIANT SettingsAgree
CHECK_DEADLOCK FALSE
