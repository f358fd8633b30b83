---------------------------- MODULE PrintRouting ----------------------------
(***************************************************************************)
(* What the desktop till prints for an order, and where: the print policy  *)
(* of the four moments of an order (printing.go) and the routing of        *)
(* kitchen tickets to printers (internal/store/printing.go).  Definitions  *)
(* only; DesktopPrinting runs them as steps of a request.                  *)
(*                                                                         *)
(* Printers and categories are plain values.  What the code finds out by   *)
(* searching Persian words in titles is given by constants: CashierLike    *)
(* and KitchenLike are the printers whose station or title names the till  *)
(* or the bar/kitchen, NameMatches the pairs <<printer, other>> such that  *)
(* the title of the first matches the name a route keeps of the second.    *)
(* A route is given with the category it resolves to: its category_id, or  *)
(* for the routes the program is seeded with, which have none, a category  *)
(* of that title; a route that resolves to none is ignored by the code.    *)
(***************************************************************************)
EXTENDS Integers, Sequences, FiniteSets

CONSTANTS Printers, Categories, NoPrinter, CashierLike, KitchenLike, NameMatches

ASSUME NoPrinterIsNone == NoPrinter \notin Printers

----------------------------------------------------------------------------
(* Policy: which documents a moment of the order asks for.                 *)

CopyLimit == 5

Clamp(n) == IF n < 1 THEN 1 ELSE IF n > CopyLimit THEN CopyLimit ELSE n

Docs(customer, kitchen) == [customer |-> customer, kitchen |-> kitchen]

NoDocs == Docs(0, 0)

Scenario(mode, doc, copies, merchant) ==
  [mode |-> mode, doc |-> doc, copies |-> copies, merchant |-> merchant]

\* The defaults; a profile that has settings for a moment overrides them all.
printPolicy(profile, event) ==
  IF event \in DOMAIN profile THEN profile[event]
  ELSE CASE event \in {"create", "notable"} -> Scenario("kitchen", "kitchen", 1, "no")
         [] event = "checkout" -> Scenario("both", "cashier", 2, "yes")
         [] event = "complete" -> Scenario("customer", "cashier", 1, "no")

\* The settling of a bill prints customer receipts only; "both" is one for
\* the customer and one for the file, "custom" doubles for the same reason.
checkoutDocs(sc) ==
  LET c == Clamp(sc.copies) IN
  CASE sc.mode = "customer" -> Docs(c, 0)
    [] sc.mode = "both"     -> Docs(2, 0)
    [] sc.mode = "custom"   -> Docs(IF sc.merchant = "yes" THEN c + c ELSE c, 0)
    [] OTHER                -> NoDocs

docs(sc, event) ==
  LET c == Clamp(sc.copies)
      Asks(m, d) == sc.mode = m \/ (sc.mode = "custom" /\ sc.doc = d) IN
  IF event = "checkout" THEN checkoutDocs(sc)
  ELSE CASE Asks("kitchen", "kitchen")  -> Docs(0, c)
         [] Asks("customer", "cashier") -> Docs(c, 0)
         [] Asks("both", "all")         -> Docs(c, c)
         [] OTHER                       -> NoDocs

----------------------------------------------------------------------------
(* Routing.  active is the sequence of active printers in listing order;   *)
(* routes the sequence of stored routes, [cat, printer, copies, active].   *)

Listed(active) == {active[i] : i \in DOMAIN active}

findPrinter(active, S) ==
  LET hits == {i \in DOMAIN active : active[i] \in S} IN
  IF hits = {} THEN NoPrinter
  ELSE active[CHOOSE i \in hits : \A j \in hits : i <= j]

cashier(active) ==
  LET p == findPrinter(active, CashierLike) IN
  IF p = NoPrinter /\ active # << >> THEN active[1] ELSE p

kitchenStation(active) == findPrinter(active, KitchenLike)

\* The printer of a route: by id among the active ones, else by name.
Destination(r, active) ==
  IF r.printer \in Listed(active) THEN r.printer
  ELSE findPrinter(active, {x \in Printers : <<x, r.printer>> \in NameMatches})

InForce(routes, active) ==
  {i \in DOMAIN routes : routes[i].active = "yes" /\ Destination(routes[i], active) # NoPrinter}

\* The route a category ends up with: the last one listed, 0 for none.
routeByCat(routes, active, c) ==
  LET mine == {i \in InForce(routes, active) : routes[i].cat = c} IN
  IF mine = {} THEN 0 ELSE CHOOSE i \in mine : \A j \in mine : j <= i

NoTicket == [on |-> "no", full |-> "no", cats |-> {}, copies |-> 0]

NoTickets == [p \in Printers |-> NoTicket]

\* Mutant: a second demand replaces the categories of the first.
addKitchenLast(t, p, full, cats, copies) ==
  IF p = NoPrinter THEN t
  ELSE [t EXCEPT ![p] = [on |-> "yes", full |-> full, cats |-> cats, copies |-> Clamp(copies)]]

\* One more demand for the kitchen ticket of printer p.  A ticket is either
\* full or for a set of categories; it keeps the largest number of copies.
addKitchen(t, p, full, cats, copies) ==
  IF p = NoPrinter THEN t
  ELSE [t EXCEPT ![p] =
         IF t[p].on = "no"
         THEN [on |-> "yes", full |-> full, cats |-> cats, copies |-> Clamp(copies)]
         ELSE [on     |-> "yes",
               full   |-> IF full = "yes" THEN "yes" ELSE t[p].full,
               cats   |-> IF full = "yes" \/ t[p].full = "yes" THEN {} ELSE t[p].cats \cup cats,
               copies |-> IF Clamp(copies) > t[p].copies THEN Clamp(copies) ELSE t[p].copies]]

\* After the loop over the categories: with no route in force one full ticket
\* goes to the kitchen station unless that is the till's printer; otherwise
\* the categories no route took go to the kitchen station.
addDefault(t, routes, active, left, want) ==
  LET kp == kitchenStation(active) IN
  IF InForce(routes, active) = {}
  THEN IF kp # cashier(active) THEN addKitchen(t, kp, "yes", {}, want) ELSE t
  ELSE IF left # {} THEN addKitchen(t, kp, "no", left, want) ELSE t
=============================================================================
