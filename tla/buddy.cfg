CONSTANTS
  Lower = 2
  Upper = 5
  Requests <- Sizes
  Userland = TRUE
SPECIFICATION Spec
INVARIANTS
  BuddyInv
  HeldApart
  BlocksTile
  FullyMerged
  NoPanic
