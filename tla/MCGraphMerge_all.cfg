CONSTANTS
  Inputs <- MCInputs
  Favours = {"ours", "theirs"}
SPECIFICATION Spec
INVARIANTS
  AdditionsKept
  MembersOnce
  ChangesKept
  AdditionsInOrder
  SectionsKept
CHECK_DEADLOCK FALSE
