CONSTANTS
  Handlers = {h1, h2}
  h1 = h1
  h2 = h2
  NoRequest = NoRequest
  Free = Free
  MaxAmount = 2
  TenantOf <- MCTenantOf
  Seeds <- MCSeeds
  Requests <- SelfRequests
SPECIFICATION Spec
PROPERTIES RefusalLinearizable
