SPECIFICATION FairSpec
CONSTANTS
  Jobs = {j1}
  Period = 1
  LeaseLen = 1
  Cooldown = 2
  Threshold = 2
  Retries = 1
  Patches <- SomePatches
  MaxEvents = 2
INVARIANTS OnceRunsOnce BreakerIsEarned
PROPERTIES DueJobRuns 
