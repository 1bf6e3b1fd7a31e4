SPECIFICATION ResultSpec
CONSTANTS
  Policies <- MCPolicies
  MaxTime = 3

  
PROPERTIES
  OnlyLoadsRenew
