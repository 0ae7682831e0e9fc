SPECIFICATION Spec
CONSTANTS
  Inputs <- MCInputs
  Expand <- MCExpand
  Core <- MCCore
  Kind <- MCKind
  Favours <- MCFavours
INVARIANTS
  BlocksAccounted
  DescribedIfAligned
  MarksOnlyAfterBlocklessFile
  BothSidesKept
  ListsRefusedOnly
CHECK_DEADLOCK FALSE
