----------------------------- MODULE Inventory ------------------------------
(***************************************************************************)
(* One ingredient of the desktop's stock: RecordStockMovement,             *)
(* VoidWasteEvent and the deduction of a recipe in                         *)
(* offline-menuvex/internal/store/domains.go.  Quantities are thousandths;  *)
(* the code writes them with two decimals.                                 *)
(***************************************************************************)
EXTENDS Integers, Sequences, FiniteSets, Functions

CONSTANTS
  Quantities,   \* what a movement form may hold, in thousandths
  Counts,       \* what the ingredient's form may set the stock to
  Costs,        \* unit_cost of a movement form
  NoCost,       \* a form without one
  Recipe,       \* what one unit of the product takes, in thousandths
  MaxMovements, \* bound: number of movements
  Orders,       \* order IDs
  NoOrder       \* the order_id of a movement that belongs to no order

ASSUME InventoryConstants ==
  /\ Quantities \subseteq Nat \ {0} /\ Counts \subseteq Int
  /\ Costs \subseteq Nat /\ Costs # {} /\ NoCost \notin Costs
  /\ Recipe \in Nat /\ MaxMovements \in Nat

VARIABLES
  stock,      \* current_stock
  average,    \* average_cost
  movements,  \* inventory_movement records, in order
  wastes,     \* waste_event records
  voiding,    \* requests of VoidWasteEvent between their two transactions
  opening     \* history: the stock as the ingredient's form last set it, carried back
              \* over the movements before

stockVars == <<stock, average, movements, wastes, voiding, opening>>

StockInit ==
  /\ stock \in Counts /\ opening = stock
  /\ average \in Costs   \* as typed in the ingredient's form
  /\ movements = <<>> /\ wastes = <<>> /\ voiding = {}

\* FormatFloat(x, 'f', 2): the nearest hundredth.  Half a hundredth goes up or down
\* with the binary value of the float.
Form2(x) ==
  CASE x % 10 < 5 -> {x - (x % 10)}
    [] x % 10 > 5 -> {x - (x % 10) + 10}
    [] OTHER -> {x - 5, x + 5}

-----------------------------------------------------------------------------
(* RecordStockMovement.  return_to_supplier and transfer_out are handled   *)
(* like consumption; opening_balance, transfer_in and incoming like        *)
(* purchase.                                                               *)

Kinds == {"consumption", "waste", "outgoing", "purchase", "adjustment", "adjustment_target"}

\* What the form's quantity means; an adjustment is typed with its sign.
signedDelta(kind, q, cur) ==
  CASE kind \in {"consumption", "waste"} -> {-q}
    [] kind = "outgoing" -> {IF cur <= 0 THEN 0 ELSE IF q > cur THEN -cur ELSE -q}
    [] kind = "purchase" -> {q}
    [] kind = "adjustment" -> {q, -q}
    [] kind = "adjustment_target" -> {q - cur}

\* The moving average, rounded to two decimals (costs are in hundredths).
Quotients(n, d) ==
  CASE 2 * (n % d) < d -> {n \div d}
    [] 2 * (n % d) > d -> {n \div d + 1}
    [] OTHER -> {n \div d, n \div d + 1}

\* Mutant: a negative stock takes part in the average.
NewAverage_always_mixes(cur, delta, cost) ==
  IF cost = NoCost \/ delta <= 0 \/ cur + delta <= 0 THEN {average}
  ELSE Quotients(cur * average + delta * cost, cur + delta)

NewAverage(cur, delta, cost) ==
  IF cost = NoCost \/ delta <= 0 \/ cur + delta <= 0 THEN {average}
  ELSE IF cur > 0 THEN Quotients(cur * average + delta * cost, cur + delta)
  ELSE {cost}

\* The transaction_type of the record.
RecordedAs(kind) ==
  CASE kind = "outgoing" -> "consumption"
    [] kind = "adjustment_target" -> "adjustment"
    [] OTHER -> kind

\* raw and before, the exact change and the stock it met, are history.
Movement(kind, qty, raw, o) ==
  [kind |-> kind, qty |-> qty, order |-> o, raw |-> raw, before |-> stock]

\* Mutant: a count corrects the stock without a movement.
Moves_unrecorded_target(kind, delta, cost) ==
  /\ Len(movements) < MaxMovements
  /\ \E s \in Form2(stock + delta), f \in Form2(delta) :
       /\ stock' = s
       /\ movements' = IF kind = "adjustment_target" THEN movements
                       ELSE Append(movements, Movement(RecordedAs(kind), f, delta, NoOrder))
       /\ wastes' = IF kind = "waste"
                    THEN Append(wastes, [qty |-> -f, status |-> "recorded", restored |-> 0])
                    ELSE wastes
  /\ average' \in NewAverage(stock, delta, cost)

\* The stock, the movement and, for waste, the event are written together.
Moves(kind, delta, cost) ==
  /\ Len(movements) < MaxMovements
  /\ \E s \in Form2(stock + delta), f \in Form2(delta) :
       /\ stock' = s
       /\ movements' = Append(movements, Movement(RecordedAs(kind), f, delta, NoOrder))
       /\ wastes' = IF kind = "waste"
                    THEN Append(wastes, [qty |-> -f, status |-> "recorded", restored |-> 0])
                    ELSE wastes
  /\ average' \in NewAverage(stock, delta, cost)

RecordStockMovement(kind, q, cost) ==
  /\ \E delta \in signedDelta(kind, q, stock) : Moves(kind, delta, cost)
  /\ UNCHANGED <<voiding, opening>>

\* SaveLocalRecord with the ingredient's form: stock and average as typed, with all
\* their decimals and without a movement.
SaveIngredient(s, c) ==
  /\ stock' = s
  /\ average' = c
  /\ opening' = opening + s - stock
  /\ UNCHANGED <<movements, wastes, voiding>>

-----------------------------------------------------------------------------
(* VoidWasteEvent: mark the event in one transaction, put the quantity     *)
(* back in another.                                                        *)

\* Mutant: an event that is voided can be voided again.
VoidMark_again(w) ==
  /\ w \notin voiding
  /\ wastes' = [wastes EXCEPT ![w].status = "voided"]
  /\ voiding' = voiding \cup {w}
  /\ UNCHANGED <<stock, average, movements, opening>>

VoidMark(w) ==
  /\ wastes[w].status # "voided"
  /\ wastes' = [wastes EXCEPT ![w].status = "voided"]
  /\ voiding' = voiding \cup {w}
  /\ UNCHANGED <<stock, average, movements, opening>>

\* A quantity that was rounded to zero is refused by RecordStockMovement.
VoidRestore(w) ==
  /\ w \in voiding
  /\ voiding' = voiding \ {w}
  /\ IF wastes[w].qty = 0
     THEN UNCHANGED <<stock, movements, wastes>>
     ELSE /\ Len(movements) < MaxMovements
          /\ stock' \in Form2(stock + wastes[w].qty)
          /\ movements' = Append(movements, Movement("adjustment", wastes[w].qty, wastes[w].qty, NoOrder))
          /\ wastes' = [wastes EXCEPT ![w].restored = @ + 1]
  /\ UNCHANGED <<average, opening>>

\* The process ends between the two, or the second transaction cannot be saved.
VoidDies(w) ==
  /\ w \in voiding
  /\ voiding' = voiding \ {w}
  /\ UNCHANGED <<stock, average, movements, wastes, opening>>

-----------------------------------------------------------------------------
(* UpdateLocalOrderStatusReason, deducting the recipe of a completed order. *)

Deduct(o, units) ==
  LET deduct == Recipe * units
  IN /\ stock' \in Form2(stock - deduct)
     /\ IF deduct = 0 THEN movements' = movements
        ELSE \E f \in Form2(-deduct) : movements' = Append(movements, Movement("consumption", f, -deduct, o))
     /\ UNCHANGED <<average, wastes, voiding, opening>>

\* Some order of u units is completed; PosOrders says when.
Complete(o, u) == Len(movements) < MaxMovements /\ Deduct(o, u)

StockNext ==
  \/ \E kind \in Kinds, q \in Quantities, cost \in Costs \cup {NoCost} :
       RecordStockMovement(kind, q, cost)
  \/ \E s \in Counts \cup {stock}, c \in Costs \cup {average} : SaveIngredient(s, c)
  \/ \E w \in DOMAIN wastes : VoidMark(w) \/ VoidRestore(w) \/ VoidDies(w)
  \/ \E o \in Orders, u \in 1..2 : Complete(o, u)

StockSpec == StockInit /\ [][StockNext]_stockVars

-----------------------------------------------------------------------------
(* Properties *)

\* Every change of current_stock other than typing it is explained by its movements:
\* the stock is the opening stock plus the recorded quantities, up to one hundredth
\* for each movement of a quantity that lies halfway between two hundredths or that
\* met a typed stock with more than two decimals.
StockLedger ==
  LET recorded == SumFunction([m \in DOMAIN movements |-> movements[m].qty])
      rounded == Cardinality({m \in DOMAIN movements :
                               movements[m].raw % 10 = 5 \/ movements[m].before % 10 # 0})
  IN stock - opening - recorded \in (-10 * rounded)..(10 * rounded)

\* VoidWasteEvent, by several requests at a time: a wasted quantity comes back to the
\* stock at most once, and only for an event that is marked as voided.
RestoredAtMostOnce ==
  \A w \in DOMAIN wastes :
    /\ wastes[w].restored <= 1
    /\ wastes[w].restored = 1 => wastes[w].status = "voided"

\* RecordStockMovement: the moving average stays within the costs that were typed,
\* also when goods arrive while the stock is negative.
AverageIsBetweenCosts == \E lo, hi \in Costs : lo <= average /\ average <= hi
=============================================================================
