SPECIFICATION HandoverSpec
CONSTANTS
  None = None
  Other = Other
  t1 = t1
  t2 = t2
  Templates = {t1, t2}
  Portless = {}
  Misrouted = {}
  Domains = {}
  Specs <- HandoverSpecs
  PolicySets <- NoPolicies
  Budgets <- HandoverBudget
INVARIANTS
  QuiescentConverged
CHECK_DEADLOCK FALSE
