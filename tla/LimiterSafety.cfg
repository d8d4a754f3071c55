CONSTANTS
  Tenants <- MCTenants
  InitLimits <- MCInitLimits
  NewLimits = {0, 3}
  Minute = 3
  MaxTime = 3
SPECIFICATION Spec
INVARIANTS TypeOK WindowBound StatusSound DenialJustified
