SPECIFICATION FairSpec
CONSTANTS Kinds = {"vpw", "pwm"}  Retries = 1
INVARIANTS DriverIsSafe
PROPERTIES CallsReturn
