SPECIFICATION Spec
CONSTANTS
  None = None
  Null = Null
  Blank = Blank
  Nothing = Nothing
  Prose = Prose
  NullDoc = NullDoc
  CleanDoc = CleanDoc
  Item <- MCItem
  MaxItems = 3
  MaxOpen = 2
INVARIANTS BlocksFollowProtocol ToolInputsFaithful ToolUsesRecorded SearchesCounted TextsAgree CallsAgree
