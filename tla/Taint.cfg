SPECIFICATION Spec
CONSTANTS
  f1 = f1
  f2 = f2
  f3 = f3
  none = none
  FailureIds <- MCFailureIds
  NoFailure <- none
  Size = 5
INVARIANTS
  ClaimsInv
PROPERTY
  ImplementsByteClaims
SYMMETRY Symmetric
