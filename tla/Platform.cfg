CONSTANTS
  Handlers = {h1, h2}
  NoRequest = NoRequest
  Nothing = Nothing
  Forged = Forged
  Requests <- MCRequests
  Queries <- MCQueries
  KeyTenant <- MCKeyTenant
  Credentials <- MCCredentials
  Tenants <- MCTenants
  InitLimits <- MCInitLimits
  Seeds <- MCSeeds
  TenantOf <- MCTenantOf
  Verdicts = {"flagged", "passed"}
  Budgets <- MCBudgets
  Second = 2
  Lifetime = 4
  Minute = 1
  MaxTime = 4
  EdgeAhead = 0
  AuthAhead = 1
  SearchAhead = 1
  TransferAhead <- MCTransferAhead
SPECIFICATION FairPlatform
INVARIANTS PlatformTypeOK TenantIsolation TenantCharged ForwardsPaid GaugeExact DenialExplained AnnouncedExpiry
PROPERTIES TokenHonoured Contract EveryRequestAnswered
CHECK_DEADLOCK FALSE
