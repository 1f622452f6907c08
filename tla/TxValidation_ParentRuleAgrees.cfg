CONSTANTS
  MaxId = 3
  MaxParents = 3
  MaxTag = 5

SPECIFICATION Spec

INVARIANT ParentRuleAgrees
