\* Movements of every kind, waste voided by several requests, the stock below zero,
\* quantities halfway between two hundredths.
SPECIFICATION StockSpec
CONSTANTS
  Quantities = {15, 30}
  Counts = {25}
  Costs = {100, 301}
  NoCost = none
  Recipe = 4
  MaxMovements = 3
  Orders = {o1}
  NoOrder = none
INVARIANTS
  StockLedger
  RestoredAtMostOnce
  AverageIsBetweenCosts
\* The instance stops when its bounds are used up.
CHECK_DEADLOCK FALSE
