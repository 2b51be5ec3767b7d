SPECIFICATION ResultsSpec
CONSTANTS
  Results <- MCPages
  MaxQuery = 3
  MaxOpen <- MCMaxOpen
INVARIANTS
  ResultsTypeOK
  VisibleIsOneBlock
  ActsOnHeldKey
PROPERTY
  ReadingOrder
