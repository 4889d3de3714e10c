\* Hits of three targets, sent up to 17 times; a table of six opcodes.
CONSTANTS
  HeadSize = 3
  TargetSize = 2
  MaxHits = 3
  Word = 128
  DefaultHitCount = 5
  HitCounts <- HitCountsTyped
  Switches = {BOSSGAGE, CHANGEHP}
  Opcodes <- KeysInTable
  HeaderKeys <- KeysOfHeaders
SPECIFICATION MCSpec
INVARIANTS
  HitFits
  HitChained
  BatchIsCopies
  OnlyPivotLost
