------------------------- MODULE MCDesktopPrinting --------------------------
(***************************************************************************)
(* Two printers, two categories.  The configurations:                      *)
(*   1 no route: one full kitchen ticket                                   *)
(*   2 one category routed to the bar, the other left to it by default     *)
(*   3 an old and a newer route of one category, with different copies     *)
(*   4 a route to a printer that is switched off, found again by its name  *)
(*   5 no active printer                                                   *)
(*   6 tickets for two printers (one request: three tickets make many      *)
(*     states)                                                             *)
(*   7 a store with more jobs than a listing shows, one printer            *)
(*   8 one printer and three requests: a third one meets a job that two    *)
(*     others send side by side                                            *)
(***************************************************************************)
EXTENDS DesktopPrinting, TLC

CONSTANTS c1, c2, till, bar

Route(c, p, n) == [cat |-> c, printer |-> p, copies |-> n, active |-> "yes"]

ConfigOf(printers, active, routes, crowded, load) ==
  [enabled |-> "unset", printers |-> printers, active |-> active, routes |-> routes,
   cats |-> {c1, c2}, crowded |-> crowded, load |-> load]

Config(active, routes, crowded, load) == ConfigOf({till, bar}, active, routes, crowded, load)

MCPrinters == {till, bar}
MCCategories == {c1, c2}
MCCashierLike == {till}
MCKitchenLike == {bar}
MCNameMatches == {<<till, bar>>}

MCConfigs ==
  { Config(<<till, bar>>, << >>, "no", 2),
    Config(<<bar>>, <<Route(c1, bar, 2)>>, "no", 2),
    Config(<<till, bar>>, <<Route(c1, till, 1), Route(c1, bar, 2), Route(c2, bar, 1)>>, "no", 2),
    Config(<<till>>, <<Route(c1, bar, 2)>>, "no", 2),
    Config(<< >>, << >>, "no", 2),
    Config(<<till, bar>>, <<Route(c1, till, 6)>>, "no", 1),
    Config(<<till>>, << >>, "yes", 2),
    ConfigOf({till}, <<till>>, << >>, "no", 3) }

MCProfiles ==
  { << >>,
    [complete |-> Scenario("both", "all", 1, "no"), checkout |-> Scenario("custom", "cashier", 1, "no"),
     create |-> Scenario("custom", "all", 1, "no"), notable |-> Scenario("none", "all", 1, "no")] }
RequestSymmetry == Permutations(Requests)
=============================================================================
