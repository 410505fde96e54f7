\* Two words tell an order; at most MaxKinds kinds of traffic between clears.
CONSTANTS
  FDEPTH = 4
  FMOD = 6
  Data = {d1, d2}
  X = X
  MaxKinds = 3
SPECIFICATION CheckSpec
CONSTRAINT FewKinds
SYMMETRY Symmetry
INVARIANTS
  DataInOrder
  CleanTrafficMatches
