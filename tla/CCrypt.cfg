CONSTANTS
  Sizes = {3, 4, 5, 6, 7, 8, 9}
  MaxWords = 6
SPECIFICATION CCryptSpec
INVARIANTS
  CCryptTypeOK
  LeftOverIsLastWord
PROPERTY ChunkingIsInvisible
