SPECIFICATION FairSpec
CONSTANTS
  None = None
  Other = Other
  t1 = t1
  t2 = t2
  bad = bad
  d1 = d1
  Templates = {t1, t2, bad}
  Portless = {}
  Misrouted = {bad}
  Domains = {d1}
  Specs <- LivenessSpecs
  PolicySets <- PolicyChanges
  Budgets <- LivenessBudget
PROPERTIES
  DeletionCompletes
  Converges
CHECK_DEADLOCK FALSE
