CONSTANTS
  Handlers = {h1, h2, h3}
  h1 = h1
  h2 = h2
  h3 = h3
  NoRequest = NoRequest
  Free = Free
  MaxAmount = 2
  TenantOf <- MCTenantOf
  Seeds <- MCSeeds
  Requests <- MCRequests
SPECIFICATION Spec
SYMMETRY HandlerSymmetry
INVARIANTS TypeOK IndInv TenantFundsConserved OverdraftBound
PROPERTIES RefusalLinearizable
