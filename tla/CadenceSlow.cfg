SPECIFICATION Spec
CONSTANTS
    Every = 30
    Delay = 1
    MaxAge = 10
    MaxOpen = 3
INVARIANTS NoRepeatedTrigger
