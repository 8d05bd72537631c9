SPECIFICATION Spec
CONSTANTS
  NMember = 4
  Scores <- Scores2
  MaxLevel = 3
  UInt = 1024
INVARIANTS
  TypeOK
  RankExact
  RangeExact
  LimitExact
PROPERTY
  ImplementsSortedSet
