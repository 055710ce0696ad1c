SPECIFICATION FairSpec
CONSTANTS
  Request = {r1, r2}
  Chain = {r1, r2}
  None = None
  Branch = {b1}
  Model = {m1, m2}
  Key <- MCKey
INVARIANTS LeaseMatchesHolder AbortedLeaseNeverCommits AssociationIsTruthful HeadIsVisible
PROPERTIES LeaseAlwaysFreedAgain CommittedTurnEndsCommitted ImplementsExclusiveTurn
