SPECIFICATION Spec
CONSTANTS
  None = None
  Other = Other
  t1 = t1
  t2 = t2
  bad = bad
  d1 = d1
  Templates = {t1, t2, bad}
  Portless = {}
  Misrouted = {bad}
  Domains = {d1}
  Specs <- HalfSetSpecs
  PolicySets <- NoPolicies
  Budgets <- HalfSetBudget
INVARIANTS
  NoHalfSet
CHECK_DEADLOCK FALSE
