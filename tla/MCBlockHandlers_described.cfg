SPECIFICATION Spec
CONSTANTS
  Inputs <- MCInputs
  Expand <- MCExpand
  Core <- MCCore
  Kind <- MCKind
  Favours <- MCFavours
INVARIANT
  DescriptionHolds
CHECK_DEADLOCK FALSE
