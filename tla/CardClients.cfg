SPECIFICATION MCSpec
CONSTANTS
  MAX_CARDS = 2
  Indices = {0, 1, 2}
  Writers = {o1, o2}
  Heads = {0, 1}
  ADD_SETTLE_POLLS = 1
  MaxWrites = 1
  MaxPlugs = 1
SYMMETRY OpenerSymmetry
CHECK_DEADLOCK FALSE
INVARIANT RegistryBounded
INVARIANT HandlesAreApart
INVARIANT EachItsOwnCard
