----------------------------- MODULE PosOrders ------------------------------
(***************************************************************************)
(* Orders, tables, loyalty and debtors of the desktop point of sale, with   *)
(* the deduction of what a completed order consumed: the transactions of   *)
(* offline-menuvex/internal/store/domains.go and the handlers in app.go    *)
(* that call them.  A handler that reads an order and writes it later is   *)
(* two actions; any other request may come between them.  The other        *)
(* movements of the stock are in Inventory.                                *)
(***************************************************************************)
EXTENDS Inventory, FiniteSetsExt

CONSTANTS
  Tables,      \* table IDs
  NoTable,     \* an order that is not eaten at a table
  NoToken,     \* a request without a client token
  Forms,       \* order forms: [token, table, member, method, total, units]
  Edits,       \* what an edit may make of an order: [total, units]
  PointUnit,   \* 100000: what a customer spends for one point
  Pays,        \* amounts a debtor may pay
  Stages       \* settings of the configurable stages (pos_stages): sets of statuses

ASSUME PosOrdersConstants ==
  /\ NoOrder \notin Orders /\ NoTable \notin Tables
  /\ \A f \in Forms : /\ f.table \in Tables \cup {NoTable} /\ f.member \in {"yes", "no"}
                      /\ f.method \in {"paid", "credit_debtor"}
                      /\ f.total \in Nat /\ f.units \in Nat \ {0}
  /\ Edits \subseteq [total : Nat, units : Nat \ {0}]
  /\ PointUnit \in Nat \ {0} /\ Pays \subseteq Nat \ {0}
  /\ Stages \subseteq SUBSET {"accepted", "preparing", "ready"}

VARIABLES
  orders,     \* order records
  tables,     \* table records
  loyalty,    \* loyalty_points and orders_count of the customer
  debtors,    \* debtor records, in order of creation
  request     \* a handler between its read of an order and its write, or Idle

vars == <<orders, tables, loyalty, debtors, request, stockVars>>

Open == {"pending", "accepted", "preparing", "ready"}

Absent == [status |-> "absent", deleted |-> "no", token |-> NoToken, table |-> NoTable,
           member |-> "no", method |-> "paid", total |-> 0, units |-> 1, number |-> 0]
Idle == [order |-> NoOrder, target |-> "none"]

Placed(o) == orders[o].status # "absent"
Live(o) == Placed(o) /\ orders[o].deleted = "no"
IsOpen(o) == Live(o) /\ orders[o].status \in Open

Init ==
  /\ StockInit
  /\ orders = [o \in Orders |-> Absent]
  /\ tables = [t \in Tables |-> [status |-> "available", current |-> NoOrder]]
  /\ loyalty = [points |-> 0, orders_count |-> 0]
  /\ debtors = <<>>
  /\ request = Idle

-----------------------------------------------------------------------------
(* CreatePOSOrder *)

TokenUsed(token) == token # NoToken /\ \E o \in Orders : Live(o) /\ orders[o].token = token

\* All orders of the model are of one Tehran day.
countOrdersOnTehranDay == Cardinality({o \in Orders : Live(o)})

Occupy(ts, t, o) ==
  [x \in Tables |-> IF x = t THEN [status |-> "occupied", current |-> o] ELSE ts[x]]

Free(ts, t) ==
  [x \in Tables |-> IF x = t THEN [status |-> "available", current |-> NoOrder] ELSE ts[x]]

Earned(total) == IF total \div PointUnit < 1 THEN 1 ELSE total \div PointUnit

Debt(o, total) == [order |-> o, total |-> total, paid |-> 0, remaining |-> total, status |-> "open"]

New(f) ==
  [status |-> "pending", deleted |-> "no", token |-> f.token, table |-> f.table,
   member |-> f.member, method |-> f.method, total |-> f.total, units |-> f.units,
   number |-> 100 + countOrdersOnTehranDay]

Creates(o, f) ==
  /\ orders' = [orders EXCEPT ![o] = New(f)]
  /\ tables' = Occupy(tables, f.table, o)
  /\ loyalty' = IF f.member = "yes" THEN [points |-> loyalty.points + Earned(f.total),
                                          orders_count |-> loyalty.orders_count + 1]
                ELSE loyalty
  /\ debtors' = IF f.method = "credit_debtor" THEN Append(debtors, Debt(o, f.total)) ELSE debtors
  /\ UNCHANGED <<request, stockVars>>

\* Mutant: the token is not looked up.
CreatePOSOrder_any_token(o, f) == ~Placed(o) /\ Creates(o, f)

\* A token of an order that exists answers with that order and changes nothing.
CreatePOSOrder(o, f) == ~Placed(o) /\ ~TokenUsed(f.token) /\ Creates(o, f)

-----------------------------------------------------------------------------
(* Edits, transfer, debts *)

\* Neither a debt that exists nor the points earned follow the new total.
UpdateOrderItemsFull(o, e) ==
  /\ IsOpen(o)
  /\ orders' = [orders EXCEPT ![o].total = e.total, ![o].units = e.units]
  /\ UNCHANGED <<tables, loyalty, debtors, request, stockVars>>

CanTransfer(o, t) ==
  /\ IsOpen(o)
  /\ t # orders[o].table
  /\ tables[t].current = NoOrder
  /\ \A x \in Orders \ {o} : IsOpen(x) => orders[x].table # t

\* Mutant: the table the guests left is not freed.
TransferOrder_keeps_source(o, t) ==
  /\ CanTransfer(o, t)
  /\ orders' = [orders EXCEPT ![o].table = t]
  /\ tables' = Occupy(tables, t, o)
  /\ UNCHANGED <<loyalty, debtors, request, stockVars>>

\* The source is freed unless another order is the one at it.
TransferOrder(o, t) ==
  LET source == orders[o].table
      freed == IF source \in Tables /\ tables[source].current \in {o, NoOrder}
               THEN Free(tables, source) ELSE tables
  IN /\ CanTransfer(o, t)
     /\ orders' = [orders EXCEPT ![o].table = t]
     /\ tables' = Occupy(freed, t, o)
     /\ UNCHANGED <<loyalty, debtors, request, stockVars>>

\* Mutant: an order that is on credit can be put on credit again.
DeferOrderToDebtor_twice(o) ==
  /\ Live(o) /\ orders[o].status # "cancelled"
  /\ orders[o].total > 0 /\ Len(debtors) < 2
  /\ debtors' = Append(debtors, Debt(o, orders[o].total))
  /\ orders' = [orders EXCEPT ![o].method = "credit_debtor"]
  /\ UNCHANGED <<tables, loyalty, request, stockVars>>

\* Also for a completed order; the debt is the whole total.
DeferOrderToDebtor(o) ==
  /\ Live(o) /\ orders[o].status # "cancelled"
  /\ orders[o].method # "credit_debtor"
  /\ orders[o].total > 0
  /\ debtors' = Append(debtors, Debt(o, orders[o].total))
  /\ orders' = [orders EXCEPT ![o].method = "credit_debtor"]
  /\ UNCHANGED <<tables, loyalty, request, stockVars>>

\* What is paid beyond the rest is not recorded.
Settled(d, pay) ==
  IF pay >= d.remaining
  THEN [d EXCEPT !.paid = @ + d.remaining, !.remaining = 0, !.status = "paid"]
  ELSE [d EXCEPT !.paid = @ + pay, !.remaining = @ - pay, !.status = "partial"]

SettleDebtorPayment(i, pay) ==
  /\ debtors' = [debtors EXCEPT ![i] = Settled(@, pay)]
  /\ UNCHANGED <<orders, tables, loyalty, request, stockVars>>

-----------------------------------------------------------------------------
(* The status machine *)

\* Mutant: every transition is allowed.
validOrderTransition_any(from, to) == TRUE

validOrderTransition(from, to) ==
  LET rank == [pending |-> 0, accepted |-> 1, preparing |-> 2, ready |-> 3]
  IN \/ from = to
     \/ from \in Open /\ to \in {"completed", "cancelled"}
     \/ from \in Open /\ to \in Open /\ rank[from] < rank[to]

\* The whole transaction but for its guard.  Repeating a status changes nothing.
SetsStatus(o, to) ==
  /\ orders' = [orders EXCEPT ![o].status = to]
  /\ tables' = IF to \in {"completed", "cancelled"} THEN Free(tables, orders[o].table) ELSE tables
  /\ IF to = "completed" THEN Deduct(o, orders[o].units) ELSE UNCHANGED stockVars

\* Mutant: completing a completed order runs the deduction again.
Admits_repeats(o, to) == Live(o) /\ validOrderTransition(orders[o].status, to)

Admits(o, to) ==
  /\ Live(o)
  /\ validOrderTransition(orders[o].status, to)
  /\ orders[o].status # to

UpdateLocalOrderStatusReason(o, to) == Admits(o, to) /\ SetsStatus(o, to)

\* handleOrderStatus: the form names the new status.
OrderStatus(o, to) ==
  /\ UpdateLocalOrderStatusReason(o, to)
  /\ UNCHANGED <<loyalty, debtors, request>>

orderAdvanceTarget(status, enabled) ==
  LET chain == <<"accepted", "preparing", "ready">>
      ahead == {i \in 1..3 : /\ chain[i] \in enabled
                             /\ \A j \in 1..3 : chain[j] = status => i > j}
  IN IF status \notin Open \/ ahead = {} THEN "" ELSE chain[Min(ahead)]

\* handleOrderAdvance reads the status and the stages, which may be set anew at any
\* time (handlePOSStages) and are read here only, ...
AdvanceRead(o, enabled) ==
  /\ request = Idle
  /\ Live(o)
  /\ orderAdvanceTarget(orders[o].status, enabled) # ""
  /\ request' = [order |-> o, target |-> orderAdvanceTarget(orders[o].status, enabled)]
  /\ UNCHANGED <<orders, tables, loyalty, debtors, stockVars>>

\* ... and sets the next one, if the order still admits it.
AdvanceWrite ==
  /\ request.target \in Open
  /\ request' = Idle
  /\ \/ UpdateLocalOrderStatusReason(request.order, request.target)
     \/ /\ ~Admits(request.order, request.target)
        /\ UNCHANGED <<orders, tables, stockVars>>
  /\ UNCHANGED <<loyalty, debtors>>

-----------------------------------------------------------------------------
(* handleLocalDelete of an order *)

DeleteCheck(o) ==
  /\ request = Idle
  /\ Live(o) /\ orders[o].status # "completed"
  /\ request' = [order |-> o, target |-> "deleted", seen |-> orders[o].status]
  /\ UNCHANGED <<orders, tables, loyalty, debtors, stockVars>>

\* DeleteLocalRecord; the status is not read again and the table not freed.
DeleteWrite ==
  /\ request.target = "deleted"
  /\ request' = Idle
  /\ orders' = [orders EXCEPT ![request.order].deleted = "yes"]
  /\ UNCHANGED <<tables, loyalty, debtors, stockVars>>

\* The process ends: its records stay, the requests under way do not.
Restart ==
  /\ request # Idle
  /\ request' = Idle
  /\ UNCHANGED <<orders, tables, loyalty, debtors, stockVars>>

Next ==
  \/ \E o \in Orders, f \in Forms : CreatePOSOrder(o, f)
  \/ \E o \in Orders, e \in Edits : UpdateOrderItemsFull(o, e)
  \/ \E o \in Orders, t \in Tables : TransferOrder(o, t)
  \/ \E o \in Orders : DeferOrderToDebtor(o)
  \/ \E i \in DOMAIN debtors, pay \in Pays : SettleDebtorPayment(i, pay)
  \/ \E o \in Orders, to \in Open \cup {"completed", "cancelled"} : OrderStatus(o, to)
  \/ \E o \in Orders, enabled \in Stages : AdvanceRead(o, enabled)
  \/ \E o \in Orders : DeleteCheck(o)
  \/ AdvanceWrite
  \/ DeleteWrite
  \/ Restart

Spec == Init /\ [][Next]_vars

-----------------------------------------------------------------------------
(* Properties *)

\* CreatePOSOrder: a form that arrives again, at any later time, makes no second
\* order and earns no second points, and numbers of the day are distinct as long
\* as no order was deleted.
RetriesAreHarmless ==
  /\ \A o, x \in Orders :
       Live(o) /\ Live(x) /\ orders[o].token = orders[x].token /\ orders[o].token # NoToken => o = x
  /\ loyalty.orders_count = Cardinality({o \in Orders : orders[o].member = "yes"})
  /\ (\A o \in Orders : orders[o].deleted = "no") =>
       \A o, x \in Orders : Placed(o) /\ Placed(x) /\ orders[o].number = orders[x].number => o = x

\* UpdateLocalOrderStatusReason with handleOrderAdvance: however many requests
\* complete an order, and whatever is edited before, its recipe is deducted once, for
\* the units the completed order has; an order that is not completed takes nothing.
DeductedOnce ==
  \A o \in Orders :
    LET own == {m \in DOMAIN movements : movements[m].order = o}
    IN IF orders[o].status = "completed" /\ Recipe > 0
       THEN Cardinality(own) = 1 /\ \A m \in own : movements[m].raw = -(Recipe * orders[o].units)
       ELSE own = {}

\* CreatePOSOrder, DeferOrderToDebtor and SettleDebtorPayment, repeated and in any
\* order: an order has a debt exactly when its payment method says so, and never two;
\* what is paid and what remains add up to the debt, and its status follows them.
DebtsAreTrue ==
  /\ \A o \in Orders :
       Cardinality({i \in DOMAIN debtors : debtors[i].order = o})
         = IF orders[o].method = "credit_debtor" THEN 1 ELSE 0
  /\ \A i \in DOMAIN debtors :
       LET d == debtors[i]
       IN /\ d.paid + d.remaining = d.total /\ d.paid >= 0 /\ d.remaining >= 0
          /\ d.status = "paid" => d.remaining = 0
          /\ d.status = "partial" => d.remaining > 0
          /\ d.status = "open" => d.paid = 0

\* CreatePOSOrder, TransferOrder and UpdateLocalOrderStatusReason: the order a table
\* names as its current one is at that table and open, unless it was deleted.
CurrentOrderIsHere ==
  \A t \in Tables :
    tables[t].current # NoOrder =>
      LET o == tables[t].current
      IN orders[o].table = t /\ (IsOpen(o) \/ orders[o].deleted = "yes")

\* validOrderTransition: an order only moves forward, also when two screens advance it
\* with what they read before; completed and cancelled orders keep status, table,
\* units and total for good.  handleLocalDelete deletes a completed order only if
\* it was completed after the handler had read it.
OnlyForward ==
  [][\A o \in Orders :
       LET was == orders[o]
           is == orders'[o]
           earlier == [absent |-> {}, pending |-> {}, accepted |-> {"pending"},
                       preparing |-> {"pending", "accepted"},
                       ready |-> {"pending", "accepted", "preparing"},
                       completed |-> Open, cancelled |-> Open]
       IN Placed(o) =>
            /\ is.status # was.status => was.status \in earlier[is.status]
            /\ was.status \in {"completed", "cancelled"} =>
                 is.table = was.table /\ is.units = was.units /\ is.total = was.total
            /\ was.status = "completed" /\ is.deleted # was.deleted =>
                 request.order = o /\ request.seen \in Open]_vars
=============================================================================
