\* Length words of five bits, so that both wrap; messages of up to three blocks.
CONSTANTS
  LengthRange = 32
  Message <- LongMessage
  Pieces = {1, 50}
SPECIFICATION MCSpec
INVARIANTS
  KeyedBeforeUse
  KeysForwarded
  SomebodyApplies
  ShaPads
  KeysUsedUp
PROPERTY ExchangeCompletes
