SPECIFICATION Spec
CONSTANTS
  None = None
  Other = Other
  t1 = t1
  t2 = t2
  bad = bad
  d1 = d1
  Templates = {t1, t2, bad}
  Portless = {bad}
  Misrouted = {}
  Domains = {d1}
  Specs <- DriftSpecs
  PolicySets <- NoPolicies
  Budgets <- DriftBudget
INVARIANTS
  QuiescentConverged
CHECK_DEADLOCK FALSE
