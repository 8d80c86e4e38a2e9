SPECIFICATION Spec
CONSTANTS
  Air = air
  Stone = stone
  Others = {airVariant, b1, b2, b3}
  AirLike = {air, airVariant}
  Known = {air, stone}
  b1 = b1
  b2 = b2
  b3 = b3
  Edge = 3
  MaxIndex = 4
  WordBits = 5
  MinSection <- Lowest
  MaxSection = 0
  Heights <- Surfaces
  Positions <- Spots
  MaxWrites = 4
INVARIANTS TypeOK ReadsBack RefusedWhenFull ClientDrawsWorld
SYMMETRY Alike
