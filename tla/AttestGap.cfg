SPECIFICATION AttestSpec
CONSTANTS
    MaxCounter = 3
    MaxSeals = 1
    MaxMishaps = 2
INVARIANTS QuarantineIsNoFailure
CHECK_DEADLOCK FALSE
