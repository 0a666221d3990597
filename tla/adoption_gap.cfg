SPECIFICATION Spec
CONSTANTS
  None = None
  Other = Other
  t1 = t1
  t2 = t2
  bad = bad
  d1 = d1
  Templates = {t1, t2, bad}
  Portless = {}
  Misrouted = {bad}
  Domains = {d1}
  Specs <- LifecycleSpecs
  PolicySets <- NoPolicies
  Budgets <- AdoptionBudget
PROPERTIES
  AdoptsNothingForeign
CHECK_DEADLOCK FALSE
