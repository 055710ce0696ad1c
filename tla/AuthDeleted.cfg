SPECIFICATION Spec
CONSTANTS
  c1 = c1
  c2 = c2
  c3 = c3
  Nobody = Nobody
  Call <- MCCall
  KindOf <- MCKindOf
  ProcessOf <- MCProcessOf
  MaxTokens = 3
PROPERTY DeletedUntilLogin
