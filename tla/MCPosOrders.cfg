\* Two orders at two tables, sent twice, edited, advanced, deleted and put on credit.
SPECIFICATION Spec
CONSTANTS
  Orders = {o1, o2}
  NoOrder = none
  t1 = t1
  t2 = t2
  k = k
  Tables = {t1, t2}
  NoTable = none
  NoToken = none
  Forms <- ThreeForms
  Edits <- OneEdit
  PointUnit = 2
  Pays = {2}
  Stages <- OneSetting
  Quantities = {15}
  Counts = {20}
  Costs = {100}
  NoCost = none
  Recipe = 4
  MaxMovements = 0
SYMMETRY OrderSymmetry
INVARIANTS
  
  DeductedOnce
  DebtsAreTrue
  CurrentOrderIsHere
PROPERTIES
  OnlyForward
\* Nothing has to happen any more.
CHECK_DEADLOCK FALSE
