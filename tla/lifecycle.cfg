SPECIFICATION Spec
CONSTANTS
  None = None
  Other = Other
  t1 = t1
  t2 = t2
  bad = bad
  d1 = d1
  Templates = {t1, t2, bad}
  Portless = {}
  Misrouted = {bad}
  Domains = {d1}
  Specs <- LifecycleSpecs
  PolicySets <- NoPolicies
  Budgets <- LifecycleBudget
INVARIANTS
  TypeOK
  QuiescentConverged
  WorksOnLiveIncarnation
  FinalizerCoversOwned
  OrphansOnlySkipped
PROPERTIES
  ImplementsManaged
CHECK_DEADLOCK FALSE
