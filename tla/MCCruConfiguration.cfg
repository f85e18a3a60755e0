CONSTANTS
  Link = {l1, l2}
  Requests <- MCRequests
SPECIFICATION Spec
INVARIANTS
  
  TakesEffect
PROPERTIES
  MatchingCardLeftAlone
SYMMETRY LinkSymmetry
