SPECIFICATION Spec
CONSTANTS
  None = None
  Blank = Blank
  d1 = d1
  Domains = {d1}
  Accounts = {"default", "robot"}
  Quantities = {0, 1, 2}
  Counts = {1, 3}
  Specs <- MCSpecs
  Edits <- MCEdits
  Budget <- MCBudget
  AllPolicies <- MCPolicies
  Templates <- MCTemplates
  Portless <- NoPorts
  Misrouted <- UnknownPort
INVARIANTS
  TypeOK
  
  ReviewedWithinCeiling
  ReleaseNeverRefused
  
PROPERTIES
  UntouchedIsUnchanged
