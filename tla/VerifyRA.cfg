CONSTANT Messages <- SomeMessages
SPECIFICATION VerifySpec
INVARIANTS MissesOnlyNotCompared Symmetric TwinAgrees
CHECK_DEADLOCK FALSE
