SPECIFICATION Spec
CONSTANTS
  a = a
  b = b
  s = s
  Space = Space
  NoMatches = NoMatches
  Nothing = Nothing
  Characters <- MCCharacters
  Texts <- MCTexts
  Label <- MCLabel
  Content <- MCContent
  Items = 2
  MaxTimers = 2
INVARIANTS
  ShownIsLastSearch
  TypedIsActive
PROPERTY
  OnlyShiftLosesSearch
