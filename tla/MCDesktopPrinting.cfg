CONSTANTS
  c1 = c1
  c2 = c2
  till = till
  bar = bar
  NoPrinter = NoPrinter
  Printers <- MCPrinters
  Categories <- MCCategories
  CashierLike <- MCCashierLike
  KitchenLike <- MCKitchenLike
  NameMatches <- MCNameMatches
  Configs <- MCConfigs
  Profiles <- MCProfiles
  Requests = {r1, r2, r3}
SYMMETRY RequestSymmetry
SPECIFICATION Spec
INVARIANTS
  RoutingSound
  
  
  NoSecondPaper
  NoJobLeftBehind
\* Requests are bounded: once they are served nothing has to happen.
CHECK_DEADLOCK FALSE
