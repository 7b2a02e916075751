CONSTANTS
  r1 = r1 r2 = r2 a = a b = b int = int str = str
  Routers = {r1, r2}
  Writers = {1, 2}
  RouterOf <- MCRouterOf
  Columns = {a, b}
  Types = {int, str}
  Inputs <- MCInputs
  Warm = {r1}
  Listeners = {r1}
  MaxRestarts = 1
SPECIFICATION FairSpec
INVARIANTS
  AgreesWithCatalog
  TreeReflectsCache
PROPERTY CachesConverge
CHECK_DEADLOCK FALSE
