SPECIFICATION Spec
CONSTANTS
  Labels <- AheadAndBack
  Immediates <- TurnedOrNot
  Bases <- TwoBases
  MaxSpecial = 2
  Windows64 <- NearAndFar
  Ahead64 <- AheadAndBack64
  Packings <- ThreePacked
  Segments <- AllOrders
  Mappings <- ThreeMappings
  Addresses <- UpTo20
  Sizes <- UpTo3
  Libraries <- LinkedLibraries
  Names <- ABCZ
  W = 16
  Bits = 4
INVARIANTS
  RelocationKeeps
  Relocation64Keeps
  PackedAsPlain
  DynOrder
  LookupFinds
  SymAt
CHECK_DEADLOCK FALSE
