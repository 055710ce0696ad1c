SPECIFICATION Spec
CONSTANTS
  Request = {r1, r2, r3}
  Chain = {r1, r2, r3}
  None = None
  Branch = {b1}
  Model = {m1}
  Key <- MCKey
INVARIANT DeltaOnAssociatedChain
SYMMETRY MCSymmetry
