SPECIFICATION Spec
CONSTANTS
  Slot = {q1, q2}
  Model = {m1, m2}
  Envelope <- MCEnvelope
  Word <- MCWord
  Addition <- MCAddition
  None = None
  MaxRequests = 3
  MaxLength = 5
INVARIANTS DeltaCompletesContext ContractHolds GrowthContinues CompactionStartsOver FewTabs
SYMMETRY MCSymmetry
