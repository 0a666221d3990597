SPECIFICATION Spec
CONSTANTS
  None = None
  Other = Other
  t1 = t1
  t2 = t2
  bad = bad
  d1 = d1
  Templates = {t1, t2, bad}
  Portless = {}
  Misrouted = {bad}
  Domains = {d1}
  Specs <- EditSpecs
  PolicySets <- NoPolicies
  Budgets <- EditBudget
INVARIANTS
  QuiescentConverged
  ObservedMeansApplied
PROPERTIES
  ImplementsManaged
  ObservedGenerationMonotone
CHECK_DEADLOCK FALSE
