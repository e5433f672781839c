\* One failed write between two requests.
CONSTANTS
    Configs = {c1, c2}
    Default = c1
    NoConfig = none
    Damaged = damaged
    MaxUpdates = 3
    MaxFailures = 1
SPECIFICATION ConfigSpec
PROPERTY SavedSurvives
