CONSTANTS
    Ends = {e1, e2}
    TimestampWindow = 0
    MaxKey = 2
    MaxClock = 2
    MaxWire = 1
SPECIFICATION AuthSpec
INVARIANT GenuineIsValid
CHECK_DEADLOCK FALSE
