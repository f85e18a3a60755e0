CONSTANTS
  Link = {l1}
  Requests <- MCRequests
SPECIFICATION Spec
INVARIANTS
  DynamicOffsetIsSet
