SPECIFICATION Spec
CONSTANTS
  r = r a = a t = t None = None
  Nodes <- MCNodes
  Root = r
  Targets <- MCTargets
  Uplinks <- MCUplinks
  Lifetime = 4 NoPathDelay = 1 QueueSize = 2
  MaxSwitches = 1 MaxLosses = 1
INVARIANTS TypeOK RoutesBacked
PROPERTIES RefreshedInTime RoutesSettle
