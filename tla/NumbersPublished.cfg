SPECIFICATION Spec
CONSTANTS
  Refers = {r1}
  MaxHolds = 1
  MaxRefreshes = 1
INVARIANT NumbersPublished
