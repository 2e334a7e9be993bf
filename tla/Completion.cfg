CONSTANTS
  MatchMax = 3
  Chains <- MCChains
  Specials <- MCSpecials
  Typed <- MCTyped
  Widths = {5, 8, 17}
  Height = 3
SPECIFICATION Spec
INVARIANTS KeepsSmallest BackOnTheLine
PROPERTY AddsWhatIsCommon
