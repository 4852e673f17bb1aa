CONSTANTS
  Node = {1, 2, 3, 4, 5, 6, 7, 8, 9, 10}
  NULL = NULL
SPECIFICATION Spec
INVARIANTS TypeOK LinksAgree HoldsMembers RedRule Balanced WalksInOrder
PROPERTIES FixupClimbs
