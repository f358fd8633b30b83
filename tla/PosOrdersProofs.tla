--------------------------- MODULE PosOrdersProofs --------------------------
(***************************************************************************)
(* Machine-checked proofs about the till's orders and about its stock, for *)
(* any orders, tables, forms, edits, stages, amounts and recipes.          *)
(***************************************************************************)
EXTENDS PosOrders, FiniteSetTheorems, WellFoundedInduction, TLAPS

\* The provers tried in turn at a leaf that names none.
USE SMT, Zenon, SMTT(20)

----------------------------------------------------------------------------
(* Positions in a list.                                                    *)

\* A set of positions that is not empty has a first one.
LEMMA FirstPosition ==
  ASSUME NEW n \in Nat, NEW T \in SUBSET (1..n), T # {}
  PROVE  \E i \in T : \A j \in T : i <= j
<1>1. T \subseteq Nat
  OBVIOUS
<1>2. PICK i \in T : \A e \in T : ~(<<e, i>> \in OpToRel(<, Nat))
  BY Zenon, <1>1, NatLessThanWellFounded, WFMin
<1>3. \A e \in T : ~(e < i)
  BY Zenon, <1>1, <1>2 DEF OpToRel
<1> QED
  BY <1>3

----------------------------------------------------------------------------
(* Lists of anything.                                                      *)

IsSeq(s) == \E S : s \in Seq(S)

LEMMA SeqAppend ==
  ASSUME NEW s, IsSeq(s), NEW x
  PROVE  /\ IsSeq(Append(s, x))
         /\ Len(Append(s, x)) = Len(s) + 1
         /\ DOMAIN Append(s, x) = DOMAIN s \cup {Len(s) + 1}
         /\ Len(s) + 1 \notin DOMAIN s
         /\ Append(s, x)[Len(s) + 1] = x
         /\ \A i \in DOMAIN s : Append(s, x)[i] = s[i]
<1>1. PICK S : s \in Seq(S)
  BY DEF IsSeq
<1>2. s \in Seq(S \cup {x})
  BY <1>1
<1>3. Append(s, x) \in Seq(S \cup {x})
  BY <1>2
<1> QED
  BY <1>2, <1>3 DEF IsSeq

----------------------------------------------------------------------------

Statuses == Open \cup {"absent", "completed", "cancelled"}

FormTokens == {f.token : f \in Forms} \cup {NoToken}

OrderRecords ==
  [status : Statuses, deleted : {"yes", "no"}, token : FormTokens, table : Tables \cup {NoTable},
   member : {"yes", "no"}, method : {"paid", "credit_debtor"}, total : Nat, units : Nat \ {0},
   number : Nat]

DebtRecords ==
  [order : Orders, total : Nat, paid : Nat, remaining : Nat, status : {"open", "partial", "paid"}]

Requests ==
  [order : Orders, target : Open] \cup {Idle} \cup [order : Orders, target : {"deleted"}, seen : Statuses]

MovementRecords == [kind : Kinds, qty : Int, order : Orders \cup {NoOrder}, raw : Int, before : Int]

\* A request under way is about an order that is placed.
RequestType == request \in Requests /\ (request = Idle \/ Placed(request.order))

\* The type invariant of the orders, with what the types cannot say: an order that
\* is not placed is as it was at the start, and only finitely many are placed.
OrdersType ==
  /\ orders \in [Orders -> OrderRecords]
  /\ tables \in [Tables -> [status : {"available", "occupied"}, current : Orders \cup {NoOrder}]]
  /\ loyalty \in [points : Nat, orders_count : Nat]
  /\ debtors \in Seq(DebtRecords)
  /\ RequestType
  /\ stock \in Int /\ movements \in Seq(MovementRecords)
  /\ \A o \in Orders : orders[o].status = "absent" => orders[o] = Absent
  /\ IsFiniteSet({o \in Orders : Placed(o)})

LEMMA Form2Type ==
  ASSUME NEW x \in Int
  PROVE  Form2(x) \subseteq Int
BY DEF Form2

\* Completing an order: the rest of the stock's variables stay, the movement is typed.
LEMMA DeductType ==
  ASSUME stock \in Int, movements \in Seq(MovementRecords), NEW o \in Orders, NEW u \in Nat,
         Deduct(o, u)
  PROVE  stock' \in Int /\ movements' \in Seq(MovementRecords)
<1>1. Recipe * u \in Int
  BY InventoryConstants
<1>2. stock' \in Int
  BY <1>1, Form2Type DEF Deduct
<1>3. CASE Recipe * u = 0
  BY <1>2, <1>3 DEF Deduct
<1>4. CASE Recipe * u # 0
  <2>1. PICK f \in Form2(-(Recipe * u)) :
          movements' = Append(movements, Movement("consumption", f, -(Recipe * u), o))
    BY <1>4 DEF Deduct
  <2>2. f \in Int
    BY <1>1, <2>1, Form2Type
  <2>3. Movement("consumption", f, -(Recipe * u), o) \in MovementRecords
    BY <1>1, <2>2 DEF Movement, MovementRecords, Kinds
  <2> QED
    BY <1>2, <2>1, <2>3
<1> QED
  BY <1>3, <1>4

\* One order changes, and was or stays placed.
LEMMA OneOrder ==
  ASSUME OrdersType, NEW o \in Orders, NEW r \in OrderRecords, r.status # "absent",
         orders' = [orders EXCEPT ![o] = r]
  PROVE  /\ orders' \in [Orders -> OrderRecords]
         /\ orders'[o] = r /\ \A x \in Orders \ {o} : orders'[x] = orders[x]
         /\ \A x \in Orders : Placed(x)' <=> Placed(x) \/ x = o
         /\ \A x \in Orders : orders'[x].status = "absent" => orders'[x] = Absent
         /\ IsFiniteSet({x \in Orders : Placed(x)}')
         /\ request' \in {request, Idle} => RequestType'
<1>1. orders' \in [Orders -> OrderRecords] /\ orders'[o] = r /\ \A x \in Orders \ {o} : orders'[x] = orders[x]
  BY DEF OrdersType
<1>2. \A x \in Orders : Placed(x)' <=> Placed(x) \/ x = o
  BY <1>1 DEF Placed
<1>3. IsFiniteSet({x \in Orders : Placed(x)} \cup {o})
  BY Zenon, FS_AddElement DEF OrdersType
<1>4. \A x \in Orders : orders'[x].status = "absent" => orders'[x] = Absent
  BY <1>1 DEF OrdersType
<1>5. {x \in Orders : Placed(x)}' = {x \in Orders : Placed(x)} \cup {o}
  BY <1>2
<1>6. request' \in {request, Idle} => RequestType'
  <2>1. request = Idle \/ request.order \in Orders
    BY DEF OrdersType, RequestType, Requests
  <2> QED
    BY <1>2, <2>1 DEF OrdersType, RequestType, Requests
<1> QED
  BY Zenon, <1>1, <1>2, <1>3, <1>4, <1>5, <1>6

LEMMA NewType ==
  ASSUME OrdersType, NEW f \in Forms
  PROVE  New(f) \in OrderRecords /\ New(f).status = "pending" /\ New(f).table = f.table
<1>1. {x \in Orders : Live(x)} \subseteq {x \in Orders : Placed(x)}
  BY DEF Live
<1>2. countOrdersOnTehranDay \in Nat
  BY <1>1, FS_Subset, FS_CardinalityType DEF OrdersType, countOrdersOnTehranDay
<1>3. f.token \in FormTokens
  BY DEF FormTokens
<1> QED
  BY <1>2, <1>3, PosOrdersConstants DEF New, OrderRecords, Statuses, Open

LEMMA TablesTyped ==
  ASSUME OrdersType, NEW o \in Orders, NEW t
  PROVE  /\ Occupy(tables, t, o) \in [Tables -> [status : {"available", "occupied"}, current : Orders \cup {NoOrder}]]
         /\ Free(tables, t) \in [Tables -> [status : {"available", "occupied"}, current : Orders \cup {NoOrder}]]
BY DEF OrdersType, Occupy, Free

LEMMA EarnedType ==
  ASSUME NEW n \in Nat
  PROVE  Earned(n) \in Nat
BY PosOrdersConstants DEF Earned

LEMMA CreateType ==
  ASSUME OrdersType, NEW o \in Orders, NEW f \in Forms, Creates(o, f)
  PROVE  OrdersType'
<1>1. orders' = [orders EXCEPT ![o] = New(f)] /\ New(f) \in OrderRecords /\ New(f).status # "absent"
  BY NewType DEF Creates
<1>2. f.total \in Nat
  BY PosOrdersConstants
<1>3. loyalty' \in [points : Nat, orders_count : Nat]
  <2>1. loyalty.points \in Nat /\ loyalty.orders_count \in Nat /\ Earned(f.total) \in Nat
    BY Zenon, <1>2, EarnedType DEF OrdersType
  <2>2. loyalty' = loyalty \/ loyalty' = [points |-> loyalty.points + Earned(f.total),
                                         orders_count |-> loyalty.orders_count + 1]
    BY DEF Creates
  <2> QED
    BY <2>1, <2>2 DEF OrdersType
<1>4. debtors' \in Seq(DebtRecords)
  <2>1. Debt(o, f.total) \in DebtRecords
    BY <1>2 DEF Debt, DebtRecords
  <2> QED
    BY <2>1 DEF Creates, OrdersType
<1>5. tables' \in [Tables -> [status : {"available", "occupied"}, current : Orders \cup {NoOrder}]]
  BY TablesTyped DEF Creates
<1>6. UNCHANGED <<request, stock, movements>>
  BY DEF Creates, stockVars
<1> QED
  BY Zenon, <1>1, <1>3, <1>4, <1>5, <1>6, OneOrder DEF OrdersType

LEMMA SetsStatusType ==
  ASSUME OrdersType, NEW o \in Orders, NEW to \in Open \cup {"completed", "cancelled"}, SetsStatus(o, to)
  PROVE  /\ orders' \in [Orders -> OrderRecords] /\ stock' \in Int /\ movements' \in Seq(MovementRecords)
         /\ tables' \in [Tables -> [status : {"available", "occupied"}, current : Orders \cup {NoOrder}]]
         /\ \A x \in Orders : orders'[x].status = "absent" => orders'[x] = Absent
         /\ \A x \in Orders : Placed(x) => Placed(x)'
         /\ IsFiniteSet({x \in Orders : Placed(x)}')
         /\ request' \in {request, Idle} => RequestType'
<1> DEFINE r == [orders[o] EXCEPT !.status = to]
<1>0. orders[o] \in OrderRecords /\ to \in Statuses /\ to # "absent"
  BY DEF OrdersType, Statuses, Open
<1>a. r \in OrderRecords /\ r.status # "absent"
  BY <1>0 DEF OrderRecords
<1>1. orders' = [orders EXCEPT ![o] = r] /\ r \in OrderRecords /\ r.status # "absent"
  BY <1>a DEF SetsStatus, OrdersType
<1>2. stock' \in Int /\ movements' \in Seq(MovementRecords)
  <2>1. orders[o].units \in Nat
    BY DEF OrdersType, OrderRecords
  <2> QED
    BY <2>1, DeductType DEF SetsStatus, OrdersType, stockVars
<1>3. tables' \in [Tables -> [status : {"available", "occupied"}, current : Orders \cup {NoOrder}]]
  BY TablesTyped DEF SetsStatus, OrdersType
<1> HIDE DEF r
<1> QED
  BY Zenon, <1>1, <1>2, <1>3, OneOrder

LEMMA OneToThree == \A i \in 1..3 : i = 1 \/ i = 2 \/ i = 3
OBVIOUS

\* What handleOrderAdvance asks for is an open status.
LEMMA AdvanceTarget ==
  ASSUME NEW s, NEW enabled, orderAdvanceTarget(s, enabled) # ""
  PROVE  orderAdvanceTarget(s, enabled) \in Open
<1> DEFINE chain == <<"accepted", "preparing", "ready">>
           ahead == {i \in 1..3 : /\ chain[i] \in enabled
                                  /\ \A j \in 1..3 : chain[j] = s => i > j}
<1>1. ahead # {} /\ ahead \in SUBSET (1..3)
  BY Zenon DEF orderAdvanceTarget
<1>2. \E i \in ahead : \A j \in ahead : i <= j
  BY Zenon, <1>1, FirstPosition
<1>3. Min(ahead) \in 1..3
  <2> HIDE DEF ahead
  <2> QED
    BY Zenon, <1>1, <1>2 DEF Min
<1>4. orderAdvanceTarget(s, enabled) = chain[Min(ahead)]
  BY Zenon DEF orderAdvanceTarget
<1>5. \A i \in 1..3 : chain[i] \in Open
  <2>1. chain[1] \in Open /\ chain[2] \in Open /\ chain[3] \in Open
    BY Zenon DEF Open
  <2> QED
    BY Zenon, <2>1, OneToThree
<1> QED
  BY Zenon, <1>3, <1>4, <1>5

LEMMA AbsentIs ==
  /\ Absent.status = "absent" /\ Absent.deleted = "no" /\ Absent.method = "paid"
  /\ Absent.member = "no"
BY DEF Absent

LEMMA OrdersTypeInit == Init => OrdersType
<1> SUFFICES ASSUME Init PROVE OrdersType
  OBVIOUS
<1>1. Absent \in OrderRecords
  BY DEF Absent, OrderRecords, Statuses, FormTokens
<1>2. {o \in Orders : Placed(o)} = {}
  BY AbsentIs DEF Init, Placed
<1>3. stock \in Int /\ movements = << >>
  BY InventoryConstants DEF Init, StockInit
<1>4. orders \in [Orders -> OrderRecords]
  BY <1>1 DEF Init
<1>5. tables \in [Tables -> [status : {"available", "occupied"}, current : Orders \cup {NoOrder}]]
  BY DEF Init
<1>6. RequestType
  BY DEF Init, RequestType, Requests
<1>7. debtors = << >> /\ loyalty \in [points : Nat, orders_count : Nat]
  BY DEF Init
<1>8. \A o \in Orders : orders[o] = Absent
  BY DEF Init
<1>9. IsFiniteSet({o \in Orders : Placed(o)})
  BY <1>2, FS_EmptySet
<1>10. debtors \in Seq(DebtRecords) /\ movements \in Seq(MovementRecords)
  BY <1>3, <1>7
<1> QED
  BY <1>3, <1>4, <1>5, <1>6, <1>7, <1>8, <1>9, <1>10 DEF OrdersType

\* What is so at the start.
LEMMA AtTheStart ==
  ASSUME Init
  PROVE  /\ \A o \in Orders : /\ orders[o].status = "absent" /\ orders[o].deleted = "no"
                               /\ orders[o].method = "paid"
         /\ debtors = << >> /\ movements = << >> /\ request.target = "none"
<1>1. \A o \in Orders : orders[o] = Absent
  BY DEF Init
<1>2. Absent.status = "absent" /\ Absent.deleted = "no" /\ Absent.method = "paid"
  BY AbsentIs
<1>3. debtors = << >> /\ movements = << >> /\ request = Idle
  BY DEF Init, StockInit
<1>4. Idle.target = "none"
  BY DEF Idle
<1> QED
  BY <1>1, <1>2, <1>3, <1>4

\* A request under way is about a placed order.
LEMMA UnderWay ==
  ASSUME OrdersType, request.target # "none"
  PROVE  request.order \in Orders /\ Placed(request.order)
<1>1. request # Idle
  <2>1. Idle.target = "none"
    BY DEF Idle
  <2> QED
    BY <2>1
<1>2. request \in Requests /\ Placed(request.order)
  BY <1>1 DEF OrdersType, RequestType
<1>3. request.order \in Orders
  BY <1>1, <1>2 DEF Requests
<1> QED
  BY <1>2, <1>3

LEMMA OrdersTypeStep ==
  ASSUME OrdersType, [Next]_vars
  PROVE  OrdersType'
<1>1. ASSUME NEW o \in Orders, NEW f \in Forms, CreatePOSOrder(o, f)
      PROVE  OrdersType'
  BY <1>1, CreateType DEF CreatePOSOrder
<1>2. ASSUME NEW o \in Orders, NEW e \in Edits, UpdateOrderItemsFull(o, e)
      PROVE  OrdersType'
  <2> DEFINE r == [orders[o] EXCEPT !.total = e.total, !.units = e.units]
  <2>1. e.total \in Nat /\ e.units \in Nat \ {0}
    BY PosOrdersConstants
  <2>a. orders[o] \in OrderRecords /\ orders[o].status # "absent"
    BY <1>2 DEF UpdateOrderItemsFull, IsOpen, Live, Placed, OrdersType
  <2>b. r \in OrderRecords /\ r.status # "absent"
    BY Zenon, <2>1, <2>a DEF OrderRecords
  <2>2. orders' = [orders EXCEPT ![o] = r]
    BY Zenon, <1>2 DEF UpdateOrderItemsFull, OrdersType
  <2>3. UNCHANGED <<tables, loyalty, debtors, request, stock, movements>>
    BY <1>2 DEF UpdateOrderItemsFull, stockVars
  <2> HIDE DEF r
  <2> QED
    BY Zenon, <2>b, <2>2, <2>3, OneOrder DEF OrdersType
<1>3. ASSUME NEW o \in Orders, NEW t \in Tables, TransferOrder(o, t)
      PROVE  OrdersType'
  <2> DEFINE r == [orders[o] EXCEPT !.table = t]
  <2>a. orders[o] \in OrderRecords /\ orders[o].status # "absent"
    BY <1>3 DEF TransferOrder, CanTransfer, IsOpen, Live, Placed, OrdersType
  <2>b. r \in OrderRecords /\ r.status # "absent"
    BY <2>a DEF OrderRecords
  <2>2. orders' = [orders EXCEPT ![o] = r]
    BY <1>3 DEF TransferOrder, OrdersType
  <2>3. UNCHANGED <<loyalty, debtors, request, stock, movements>>
    BY <1>3 DEF TransferOrder, stockVars
  <2>4. tables' \in [Tables -> [status : {"available", "occupied"}, current : Orders \cup {NoOrder}]]
    BY <1>3 DEF TransferOrder, OrdersType, Occupy, Free
  <2> HIDE DEF r
  <2> QED
    BY Zenon, <2>b, <2>2, <2>3, <2>4, OneOrder DEF OrdersType
<1>4. ASSUME NEW o \in Orders, DeferOrderToDebtor(o)
      PROVE  OrdersType'
  <2> DEFINE r == [orders[o] EXCEPT !.method = "credit_debtor"]
  <2>a. orders[o] \in OrderRecords /\ orders[o].status # "absent"
    BY <1>4 DEF DeferOrderToDebtor, Live, Placed, OrdersType
  <2>b. r \in OrderRecords /\ r.status # "absent"
    BY <2>a DEF OrderRecords
  <2>2. orders' = [orders EXCEPT ![o] = r]
    BY <1>4 DEF DeferOrderToDebtor, OrdersType
  <2>3. UNCHANGED <<tables, loyalty, request, stock, movements>>
    BY <1>4 DEF DeferOrderToDebtor, stockVars
  <2>4. Debt(o, orders[o].total) \in DebtRecords
    BY DEF Debt, DebtRecords, OrdersType, OrderRecords
  <2>5. debtors' \in Seq(DebtRecords)
    BY <1>4, <2>4 DEF DeferOrderToDebtor, OrdersType
  <2> HIDE DEF r
  <2> QED
    BY Zenon, <2>b, <2>2, <2>3, <2>5, OneOrder DEF OrdersType
<1>5. ASSUME NEW i \in DOMAIN debtors, NEW pay \in Pays, SettleDebtorPayment(i, pay)
      PROVE  OrdersType'
  <2>1. pay \in Nat /\ debtors[i] \in DebtRecords
    BY PosOrdersConstants DEF OrdersType
  <2>2. Settled(debtors[i], pay) \in DebtRecords
    <3>1. CASE pay >= debtors[i].remaining
      <4>1. debtors[i].paid + debtors[i].remaining \in Nat
        BY <2>1 DEF DebtRecords
      <4> QED
        BY Zenon, <2>1, <3>1, <4>1 DEF Settled, DebtRecords
    <3>2. CASE ~(pay >= debtors[i].remaining)
      <4>1. debtors[i].remaining - pay \in Nat /\ debtors[i].paid + pay \in Nat
        BY <2>1, <3>2 DEF DebtRecords
      <4> QED
        BY Zenon, <2>1, <3>2, <4>1 DEF Settled, DebtRecords
    <3> QED
      BY <3>1, <3>2
  <2>3. debtors' \in Seq(DebtRecords)
    BY <1>5, <2>2 DEF SettleDebtorPayment, OrdersType
  <2> QED
    BY <1>5, <2>3 DEF SettleDebtorPayment, OrdersType, stockVars, Placed, RequestType
<1>6. ASSUME NEW o \in Orders, NEW to \in Open \cup {"completed", "cancelled"}, OrderStatus(o, to)
      PROVE  OrdersType'
  BY Zenon, <1>6, SetsStatusType DEF OrderStatus, UpdateLocalOrderStatusReason, OrdersType
<1>7. ASSUME NEW o \in Orders, NEW enabled \in Stages, AdvanceRead(o, enabled)
      PROVE  OrdersType'
  <2>1. request' = [order |-> o, target |-> orderAdvanceTarget(orders[o].status, enabled)]
        /\ orderAdvanceTarget(orders[o].status, enabled) \in Open /\ Placed(o)
    BY Zenon, <1>7, AdvanceTarget DEF AdvanceRead, Live
  <2>2. UNCHANGED <<orders, tables, loyalty, debtors, stock, movements>>
    BY Zenon, <1>7 DEF AdvanceRead, stockVars
  <2>3. RequestType'
    BY <2>1, <2>2 DEF RequestType, Requests, Placed
  <2> QED
    BY <2>2, <2>3 DEF OrdersType, Placed
<1>8. ASSUME NEW o \in Orders, DeleteCheck(o)
      PROVE  OrdersType'
  <2>1. request' = [order |-> o, target |-> "deleted", seen |-> orders[o].status] /\ Placed(o)
    BY <1>8 DEF DeleteCheck, Live
  <2>2. UNCHANGED <<orders, tables, loyalty, debtors, stock, movements>>
    BY <1>8 DEF DeleteCheck, stockVars
  <2>3. orders[o].status \in Statuses
    BY DEF OrdersType, OrderRecords
  <2>4. RequestType'
    BY <2>1, <2>2, <2>3 DEF RequestType, Requests, Placed
  <2> QED
    BY <2>2, <2>4 DEF OrdersType, Placed
<1>9. CASE AdvanceWrite
  <2>1. request.order \in Orders /\ request.target \in Open
    BY <1>9, UnderWay DEF AdvanceWrite, Open
  <2>2. CASE UpdateLocalOrderStatusReason(request.order, request.target)
    BY Zenon, <1>9, <2>1, <2>2, SetsStatusType DEF AdvanceWrite, UpdateLocalOrderStatusReason, OrdersType, RequestType, Requests
  <2>3. CASE UNCHANGED <<orders, tables, stockVars>>
    BY <1>9, <2>3 DEF AdvanceWrite, OrdersType, stockVars, Placed, RequestType, Requests
  <2> QED
    BY <1>9, <2>2, <2>3 DEF AdvanceWrite
<1>10. CASE DeleteWrite
  <2> DEFINE o == request.order
             r == [orders[o] EXCEPT !.deleted = "yes"]
  <2>1. o \in Orders /\ Placed(o)
    BY <1>10, UnderWay DEF DeleteWrite
  <2>a. orders[o] \in OrderRecords /\ orders[o].status # "absent"
    BY <2>1 DEF Placed, OrdersType
  <2>b. r \in OrderRecords /\ r.status # "absent"
    BY <2>a DEF OrderRecords
  <2>2. orders' = [orders EXCEPT ![o] = r]
    BY <1>10 DEF DeleteWrite, OrdersType
  <2>3. UNCHANGED <<tables, loyalty, debtors, stock, movements>> /\ request' = Idle
    BY <1>10 DEF DeleteWrite, stockVars
  <2> HIDE DEF o, r
  <2> QED
    BY Zenon, <2>1, <2>b, <2>2, <2>3, OneOrder DEF OrdersType
<1>11. CASE Restart
  BY <1>11 DEF Restart, OrdersType, stockVars, Placed, RequestType, Requests
<1>12. CASE UNCHANGED vars
  BY <1>12 DEF vars, OrdersType, stockVars, Placed, RequestType
<1> QED
  BY <1>1, <1>2, <1>3, <1>4, <1>5, <1>6, <1>7, <1>8, <1>9, <1>10, <1>11, <1>12 DEF Next

----------------------------------------------------------------------------
(* What a step may do to orders.                                           *)

\* Every transaction but CreatePOSOrder leaves token, customer and number of every
\* order alone, places none and brings no deleted one back.
Keeps(x) ==
  /\ orders'[x].token = orders[x].token /\ orders'[x].member = orders[x].member
  /\ orders'[x].number = orders[x].number
  /\ orders'[x].deleted \in {orders[x].deleted, "yes"}
  /\ orders'[x].status = "absent" <=> orders[x].status = "absent"

LEMMA OneKeeps ==
  ASSUME OrdersType, NEW o \in Orders, NEW r, orders' = [orders EXCEPT ![o] = r],
         r.token = orders[o].token, r.member = orders[o].member, r.number = orders[o].number,
         r.deleted \in {orders[o].deleted, "yes"}, r.status # "absent", orders[o].status # "absent",
         NEW x \in Orders
  PROVE  Keeps(x)
<1>1. orders'[o] = r /\ (x # o => orders'[x] = orders[x])
  BY DEF OrdersType
<1> QED
  BY <1>1 DEF Keeps

\* A change of status leaves the rest of the order alone.
LEMMA StatusFields ==
  ASSUME OrdersType, NEW o \in Orders, NEW to, UpdateLocalOrderStatusReason(o, to)
  PROVE  /\ \A x \in Orders \ {o} : orders'[x] = orders[x]
         /\ orders'[o].status = to /\ orders'[o].deleted = orders[o].deleted
         /\ orders'[o].method = orders[o].method /\ orders'[o].units = orders[o].units
         /\ orders'[o].table = orders[o].table /\ orders'[o].total = orders[o].total
BY DEF UpdateLocalOrderStatusReason, SetsStatus, OrdersType, OrderRecords

LEMMA StatusKeeps ==
  ASSUME OrdersType, NEW o \in Orders, NEW to, UpdateLocalOrderStatusReason(o, to), to # "absent"
  PROVE  \A x \in Orders : Keeps(x)
<1> DEFINE r == [orders[o] EXCEPT !.status = to]
<1>1. orders' = [orders EXCEPT ![o] = r] /\ orders[o].status # "absent"
  BY DEF UpdateLocalOrderStatusReason, SetsStatus, OrdersType, Admits, Live, Placed
<1>2. r.token = orders[o].token /\ r.member = orders[o].member /\ r.number = orders[o].number
      /\ r.deleted = orders[o].deleted /\ r.status = to
  BY DEF OrdersType, OrderRecords
<1> HIDE DEF r
<1> QED
  BY Zenon, <1>1, <1>2, OneKeeps

LEMMA OthersKeep ==
  ASSUME OrdersType, [Next]_vars, \A o \in Orders, f \in Forms : ~CreatePOSOrder(o, f)
  PROVE  loyalty' = loyalty /\ \A x \in Orders : Keeps(x)
<1> SUFFICES ASSUME NEW x \in Orders PROVE loyalty' = loyalty /\ Keeps(x)
  BY Zenon DEF Next, vars, UpdateOrderItemsFull, TransferOrder, DeferOrderToDebtor, SettleDebtorPayment,
         OrderStatus, AdvanceRead, DeleteCheck, AdvanceWrite, DeleteWrite, Restart
<1>0. \A o \in Orders : orders[o] \in OrderRecords
  BY DEF OrdersType
<1>1. ASSUME NEW o \in Orders, NEW e \in Edits, UpdateOrderItemsFull(o, e)
      PROVE  loyalty' = loyalty /\ Keeps(x)
  <2> DEFINE r == [orders[o] EXCEPT !.total = e.total, !.units = e.units]
  <2>1. orders' = [orders EXCEPT ![o] = r] /\ orders[o].status # "absent" /\ loyalty' = loyalty
    BY Zenon, <1>1 DEF UpdateOrderItemsFull, OrdersType, IsOpen, Live, Placed
  <2>2. /\ r.token = orders[o].token /\ r.member = orders[o].member /\ r.number = orders[o].number
        /\ r.deleted = orders[o].deleted /\ r.status = orders[o].status
    BY <1>0 DEF OrderRecords
  <2> HIDE DEF r
  <2> QED
    BY Zenon, <2>1, <2>2, OneKeeps
<1>2. ASSUME NEW o \in Orders, NEW t \in Tables, TransferOrder(o, t)
      PROVE  loyalty' = loyalty /\ Keeps(x)
  <2> DEFINE r == [orders[o] EXCEPT !.table = t]
  <2>1. orders' = [orders EXCEPT ![o] = r] /\ orders[o].status # "absent" /\ loyalty' = loyalty
    BY <1>2 DEF TransferOrder, CanTransfer, OrdersType, IsOpen, Live, Placed
  <2>2. /\ r.token = orders[o].token /\ r.member = orders[o].member /\ r.number = orders[o].number
        /\ r.deleted = orders[o].deleted /\ r.status = orders[o].status
    BY <1>0 DEF OrderRecords
  <2> HIDE DEF r
  <2> QED
    BY Zenon, <2>1, <2>2, OneKeeps
<1>3. ASSUME NEW o \in Orders, DeferOrderToDebtor(o)
      PROVE  loyalty' = loyalty /\ Keeps(x)
  <2> DEFINE r == [orders[o] EXCEPT !.method = "credit_debtor"]
  <2>1. orders' = [orders EXCEPT ![o] = r] /\ orders[o].status # "absent" /\ loyalty' = loyalty
    BY <1>3 DEF DeferOrderToDebtor, OrdersType, Live, Placed
  <2>2. /\ r.token = orders[o].token /\ r.member = orders[o].member /\ r.number = orders[o].number
        /\ r.deleted = orders[o].deleted /\ r.status = orders[o].status
    BY <1>0 DEF OrderRecords
  <2> HIDE DEF r
  <2> QED
    BY Zenon, <2>1, <2>2, OneKeeps
<1>4. ASSUME NEW o \in Orders, NEW to \in Open \cup {"completed", "cancelled"}, OrderStatus(o, to)
      PROVE  loyalty' = loyalty /\ Keeps(x)
  BY <1>4, StatusKeeps DEF OrderStatus, Open
<1>5. CASE AdvanceWrite
  <2>1. request.order \in Orders /\ request.target \in Open /\ loyalty' = loyalty
    BY <1>5, UnderWay DEF AdvanceWrite, Open
  <2>2. CASE UpdateLocalOrderStatusReason(request.order, request.target)
    BY <2>1, <2>2, StatusKeeps DEF Open
  <2>3. CASE UNCHANGED orders
    BY <2>1, <2>3 DEF Keeps
  <2> QED
    BY <1>5, <2>2, <2>3 DEF AdvanceWrite
<1>6. CASE DeleteWrite
  <2> DEFINE o == request.order
             r == [orders[o] EXCEPT !.deleted = "yes"]
  <2>1. o \in Orders /\ Placed(o)
    BY <1>6, UnderWay DEF DeleteWrite
  <2>2. orders' = [orders EXCEPT ![o] = r] /\ loyalty' = loyalty
    BY <1>6 DEF DeleteWrite, OrdersType
  <2>3. /\ r.token = orders[o].token /\ r.member = orders[o].member /\ r.number = orders[o].number
        /\ r.deleted = "yes" /\ r.status = orders[o].status
    BY <1>0, <2>1 DEF OrderRecords
  <2> HIDE DEF o, r
  <2> QED
    BY Zenon, <2>1, <2>2, <2>3, OneKeeps DEF Placed
<1>7. CASE UNCHANGED <<orders, loyalty>>
  BY <1>7 DEF Keeps
<1> QED
  BY Zenon, <1>1, <1>2, <1>3, <1>4, <1>5, <1>6, <1>7
  DEF Next, vars, SettleDebtorPayment, AdvanceRead, DeleteCheck, Restart

----------------------------------------------------------------------------
(* Repeated forms.                                                         *)

NothingDeleted == \A o \in Orders : orders[o].deleted = "no"

\* Tokens of live orders are distinct, the customer's orders are counted, and as
\* long as nothing was deleted the numbers of the day lie below the next one.  The
\* last is what makes RetriesAreHarmless inductive: without it the number of a new
\* order could be taken.
RetriesInv ==
  /\ \A o, x \in Orders :
       Live(o) /\ Live(x) /\ orders[o].token = orders[x].token /\ orders[o].token # NoToken => o = x
  /\ loyalty.orders_count = Cardinality({o \in Orders : orders[o].member = "yes"})
  /\ NothingDeleted =>
       /\ \A o \in Orders : Placed(o) => orders[o].number < 100 + countOrdersOnTehranDay
       /\ \A o, x \in Orders : Placed(o) /\ Placed(x) /\ orders[o].number = orders[x].number => o = x

LEMMA RetriesInvInit == Init => RetriesInv
<1> SUFFICES ASSUME Init PROVE RetriesInv
  OBVIOUS
<1>1. \A o \in Orders : ~Placed(o) /\ orders[o].member = "no"
  BY AbsentIs DEF Init, Placed
<1>2. {o \in Orders : orders[o].member = "yes"} = {}
  BY <1>1
<1>3. loyalty.orders_count = Cardinality({o \in Orders : orders[o].member = "yes"})
  BY Zenon, <1>2, FS_EmptySet DEF Init
<1> QED
  BY <1>1, <1>3 DEF RetriesInv, Live

LEMMA RetriesInvKept ==
  ASSUME RetriesInv, loyalty' = loyalty, \A x \in Orders : Keeps(x)
  PROVE  RetriesInv'
<1>1. \A x \in Orders : (Live(x)' => Live(x)) /\ (Placed(x)' <=> Placed(x))
  BY DEF Keeps, Live, Placed
<1>2. {o \in Orders : orders[o].member = "yes"}' = {o \in Orders : orders[o].member = "yes"}
  BY DEF Keeps
<1>3. ASSUME NothingDeleted'
      PROVE  NothingDeleted /\ countOrdersOnTehranDay' = countOrdersOnTehranDay
  <2>1. \A x \in Orders : orders'[x].deleted = "no" /\ orders[x].deleted = "no"
    BY <1>3 DEF Keeps, NothingDeleted
  <2>2. {o \in Orders : Live(o)}' = {o \in Orders : Live(o)}
    BY <1>1, <2>1 DEF Live
  <2> QED
    BY Zenon, <2>1, <2>2 DEF NothingDeleted, countOrdersOnTehranDay
<1>4. (\A o, x \in Orders :
         Live(o) /\ Live(x) /\ orders[o].token = orders[x].token /\ orders[o].token # NoToken => o = x)'
  <2>1. \A x \in Orders : orders'[x].token = orders[x].token
    BY DEF Keeps
  <2> QED
    BY <1>1, <2>1 DEF RetriesInv
<1>5. (loyalty.orders_count = Cardinality({o \in Orders : orders[o].member = "yes"}))'
  BY <1>2 DEF RetriesInv
<1>6. (NothingDeleted =>
         /\ \A o \in Orders : Placed(o) => orders[o].number < 100 + countOrdersOnTehranDay
         /\ \A o, x \in Orders : Placed(o) /\ Placed(x) /\ orders[o].number = orders[x].number => o = x)'
  BY <1>1, <1>3 DEF RetriesInv, Keeps
<1> QED
  BY <1>4, <1>5, <1>6 DEF RetriesInv

LEMMA RetriesInvCreate ==
  ASSUME OrdersType, RetriesInv, NEW o \in Orders, NEW f \in Forms, CreatePOSOrder(o, f)
  PROVE  RetriesInv'
<1> DEFINE Members == {x \in Orders : orders[x].member = "yes"}
           Lives == {x \in Orders : Live(x)}
<1>1. /\ orders'[o] = New(f) /\ \A x \in Orders \ {o} : orders'[x] = orders[x]
      /\ orders[o] = Absent /\ ~TokenUsed(f.token)
  BY NewType, OneOrder DEF CreatePOSOrder, Creates, OrdersType, Placed
<1>2. /\ New(f).token = f.token /\ New(f).member = f.member /\ New(f).deleted = "no"
      /\ New(f).status = "pending" /\ New(f).number = 100 + countOrdersOnTehranDay
  BY DEF New
<1>3. /\ IsFiniteSet(Members) /\ IsFiniteSet(Lives)
      /\ Cardinality(Members) \in Nat /\ Cardinality(Lives) \in Nat
  <2>1. Lives \subseteq {x \in Orders : Placed(x)} /\ Members \subseteq {x \in Orders : Placed(x)}
    BY AbsentIs DEF Live, Placed, OrdersType
  <2> QED
    BY <2>1, FS_Subset, FS_CardinalityType DEF OrdersType
<1>4. (\A y, x \in Orders :
         Live(y) /\ Live(x) /\ orders[y].token = orders[x].token /\ orders[y].token # NoToken => y = x)'
  <2>1. \A x \in Orders \ {o} : Live(x)' <=> Live(x)
    BY <1>1 DEF Live, Placed
  <2>2. \A x \in Orders \ {o} : Live(x) => orders[x].token # f.token \/ f.token = NoToken
    BY <1>1 DEF TokenUsed
  <2>3. orders'[o].token = f.token
    BY <1>1, <1>2
  <2>4. \A y, x \in Orders \ {o} :
          Live(y)' /\ Live(x)' /\ orders'[y].token = orders'[x].token /\ orders'[y].token # NoToken => y = x
    BY <1>1, <2>1 DEF RetriesInv
  <2>5. \A x \in Orders \ {o} : Live(x)' => orders'[x].token # orders'[o].token \/ orders'[o].token = NoToken
    BY <1>1, <2>1, <2>2, <2>3
  <2> QED
    BY <2>4, <2>5
<1>5. (loyalty.orders_count = Cardinality({x \in Orders : orders[x].member = "yes"}))'
  <2>1. o \notin Members
    BY <1>1, AbsentIs
  <2>2. CASE f.member = "yes"
    <3>1. {x \in Orders : orders[x].member = "yes"}' = Members \cup {o}
      BY <1>1, <1>2, <2>2
    <3>2. loyalty'.orders_count = loyalty.orders_count + 1
      BY <2>2 DEF CreatePOSOrder, Creates
    <3> QED
      BY Zenon, <1>3, <2>1, <3>1, <3>2, FS_AddElement DEF RetriesInv
  <2>3. CASE f.member # "yes"
    <3>1. {x \in Orders : orders[x].member = "yes"}' = Members
      BY <1>1, <1>2, <2>1, <2>3
    <3>2. loyalty' = loyalty
      BY <2>3 DEF CreatePOSOrder, Creates
    <3> QED
      BY Zenon, <3>1, <3>2 DEF RetriesInv
  <2> QED
    BY <2>2, <2>3
<1>6. (NothingDeleted =>
         /\ \A y \in Orders : Placed(y) => orders[y].number < 100 + countOrdersOnTehranDay
         /\ \A y, x \in Orders : Placed(y) /\ Placed(x) /\ orders[y].number = orders[x].number => y = x)'
  <2> SUFFICES ASSUME NothingDeleted'
               PROVE  (/\ \A y \in Orders : Placed(y) => orders[y].number < 100 + countOrdersOnTehranDay
                       /\ \A y, x \in Orders : Placed(y) /\ Placed(x) /\ orders[y].number = orders[x].number
                            => y = x)'
    OBVIOUS
  <2>1. NothingDeleted
    BY <1>1, AbsentIs DEF NothingDeleted
  <2>2. {x \in Orders : Live(x)}' = Lives \cup {o} /\ o \notin Lives
    <3>1. orders[o].status = "absent"
      BY <1>1, AbsentIs
    <3>2. ~Live(o) /\ Live(o)'
      BY <1>1, <1>2, <3>1 DEF Live, Placed
    <3>3. \A x \in Orders \ {o} : Live(x)' <=> Live(x)
      BY <1>1 DEF Live, Placed
    <3> QED
      BY <3>2, <3>3
  <2>3. countOrdersOnTehranDay' = countOrdersOnTehranDay + 1 /\ countOrdersOnTehranDay \in Nat
    BY Zenon, <1>3, <2>2, FS_AddElement DEF countOrdersOnTehranDay
  <2>4. \A x \in Orders \ {o} : Placed(x)' => Placed(x) /\ orders[x].number < 100 + countOrdersOnTehranDay
                                              /\ orders[x].number \in Nat
    BY <1>1, <2>1 DEF RetriesInv, Placed, OrdersType, OrderRecords
  <2>5. \A x \in Orders \ {o} : orders'[x].number = orders[x].number
    BY <1>1
  <2>6. orders'[o].number = 100 + countOrdersOnTehranDay
    BY <1>1, <1>2
  <2>7. (\A y \in Orders : Placed(y) => orders[y].number < 100 + countOrdersOnTehranDay)'
    BY <2>3, <2>4, <2>5, <2>6
  <2>8. (\A y, x \in Orders : Placed(y) /\ Placed(x) /\ orders[y].number = orders[x].number => y = x)'
    <3>1. \A x \in Orders \ {o} : Placed(x)' => orders'[x].number # orders'[o].number
      BY ONLY SMTT(20), SMTT(30), <2>3, <2>4, <2>5, <2>6
    <3>2. \A y, x \in Orders \ {o} : Placed(y)' /\ Placed(x)' /\ orders'[y].number = orders'[x].number => y = x
      BY <2>1, <2>4, <2>5 DEF RetriesInv
    <3> QED
      BY <3>1, <3>2
  <2> QED
    BY <2>7, <2>8
<1> QED
  BY ONLY ZenonT(30), <1>4, <1>5, <1>6 DEF RetriesInv

\* RetriesAreHarmless for any number of orders, forms and customers' requests: a form
\* that CreatePOSOrder has seen makes no second order and no second points.
THEOREM FormsCountOnce == Spec => []RetriesAreHarmless
<1>1. Init => OrdersType /\ RetriesInv
  BY OrdersTypeInit, RetriesInvInit
<1>2. OrdersType /\ RetriesInv /\ [Next]_vars => (OrdersType /\ RetriesInv)'
  BY ZenonT(30), OrdersTypeStep, RetriesInvCreate, RetriesInvKept, OthersKeep
<1>3. RetriesInv => RetriesAreHarmless
  BY DEF RetriesInv, RetriesAreHarmless, NothingDeleted
<1> QED
  BY <1>1, <1>2, <1>3, PTL DEF Spec

----------------------------------------------------------------------------
(* Tables.                                                                 *)

\* What CurrentOrderIsHere says of one table.
Here(t) ==
  tables[t].current # NoOrder =>
    LET o == tables[t].current
    IN orders[o].table = t /\ (IsOpen(o) \/ orders[o].deleted = "yes")

\* A table whose current order keeps its place and stays open, or is deleted.
LEMMA HereKept ==
  ASSUME OrdersType, NEW t \in Tables, Here(t), tables'[t] = tables[t],
         \A o \in Orders : tables[t].current = o =>
           /\ orders'[o].table = orders[o].table
           /\ IsOpen(o) => IsOpen(o)' \/ orders'[o].deleted = "yes"
           /\ orders[o].deleted = "yes" => orders'[o].deleted = "yes"
  PROVE  Here(t)'
<1>1. tables[t].current \in Orders \cup {NoOrder}
  BY DEF OrdersType
<1> QED
  BY <1>1 DEF Here

\* Completing and cancelling free the table the order is at, the other statuses
\* leave it open there.
LEMMA StatusHere ==
  ASSUME OrdersType, CurrentOrderIsHere, NEW o \in Orders, NEW to \in Open \cup {"completed", "cancelled"},
         UpdateLocalOrderStatusReason(o, to)
  PROVE  CurrentOrderIsHere'
<1> SUFFICES ASSUME NEW t \in Tables PROVE Here(t)'
  BY DEF CurrentOrderIsHere, Here
<1>1. Here(t)
  BY DEF CurrentOrderIsHere, Here
<1>2. /\ \A x \in Orders \ {o} : orders'[x] = orders[x]
      /\ orders'[o].table = orders[o].table /\ orders'[o].deleted = "no" /\ orders'[o].status = to
  BY DEF UpdateLocalOrderStatusReason, Admits, Live, SetsStatus, OrdersType, OrderRecords
<1>3. CASE tables'[t].current = NoOrder
  BY <1>3 DEF Here
<1>4. CASE tables'[t] = tables[t] /\ tables[t].current # o
  BY <1>1, <1>2, <1>4, HereKept DEF IsOpen, Live, Placed
<1>5. CASE tables'[t] = tables[t] /\ tables[t].current = o
  <2>1. orders[o].table = t /\ o # NoOrder
    BY <1>1, <1>5, PosOrdersConstants DEF Here
  <2>2. to \in Open
    BY <1>5, <2>1, PosOrdersConstants DEF UpdateLocalOrderStatusReason, SetsStatus, Free
  <2> QED
    BY <1>2, <1>5, <2>1, <2>2 DEF Here, IsOpen, Live, Placed, Open
<1> QED
  BY <1>3, <1>4, <1>5 DEF UpdateLocalOrderStatusReason, SetsStatus, Free, OrdersType

LEMMA TransferHere ==
  ASSUME OrdersType, CurrentOrderIsHere, NEW o \in Orders, NEW t \in Tables, TransferOrder(o, t)
  PROVE  CurrentOrderIsHere'
<1> SUFFICES ASSUME NEW u \in Tables PROVE Here(u)'
  BY DEF CurrentOrderIsHere, Here
<1>1. Here(u)
  BY DEF CurrentOrderIsHere, Here
<1>2. /\ \A x \in Orders \ {o} : orders'[x] = orders[x]
      /\ orders'[o].table = t /\ orders'[o].deleted = orders[o].deleted /\ orders'[o].status = orders[o].status
  BY DEF TransferOrder, OrdersType, OrderRecords
<1>3. IsOpen(o) /\ t # orders[o].table
  BY DEF TransferOrder, CanTransfer
<1>4. CASE u = t
  <2>1. tables'[u].current = o
    BY <1>4 DEF TransferOrder, Occupy
  <2> QED
    BY <1>2, <1>3, <1>4, <2>1 DEF Here, IsOpen, Live, Placed
<1>5. CASE u # t /\ tables[u].current = o
  <2>1. orders[o].table = u
    BY <1>1, <1>5, PosOrdersConstants DEF Here
  <2>2. tables'[u].current = NoOrder
    BY <1>5, <2>1 DEF TransferOrder, Occupy, Free
  <2> QED
    BY <2>2 DEF Here
<1>6. CASE u # t /\ tables[u].current # o
  <2>1. tables'[u].current = NoOrder \/ tables'[u] = tables[u]
    BY <1>6 DEF TransferOrder, Occupy, Free
  <2>2. CASE tables'[u].current = NoOrder
    BY <2>2 DEF Here
  <2>3. CASE tables'[u] = tables[u]
    BY <1>1, <1>2, <1>6, <2>3, HereKept DEF IsOpen, Live, Placed
  <2> QED
    BY <2>1, <2>2, <2>3
<1> QED
  BY <1>4, <1>5, <1>6

LEMMA CreateHere ==
  ASSUME OrdersType, CurrentOrderIsHere, NEW o \in Orders, NEW f \in Forms, CreatePOSOrder(o, f)
  PROVE  CurrentOrderIsHere'
<1> SUFFICES ASSUME NEW t \in Tables PROVE Here(t)'
  BY DEF CurrentOrderIsHere, Here
<1>1. Here(t)
  BY ZenonT(30) DEF CurrentOrderIsHere, Here
<1>2. orders'[o] = New(f) /\ (\A x \in Orders \ {o} : orders'[x] = orders[x]) /\ orders[o] = Absent
  BY NewType, OneOrder DEF CreatePOSOrder, Creates, OrdersType, Placed
<1>3. CASE t = f.table
  <2>1. tables'[t].current = o
    BY <1>3 DEF CreatePOSOrder, Creates, Occupy
  <2>2. New(f).status = "pending" /\ New(f).deleted = "no" /\ New(f).table = t
    BY <1>3 DEF New
  <2>3. IsOpen(o)' /\ orders'[o].table = t
    BY <1>2, <2>2 DEF IsOpen, Live, Placed, Open
  <2> QED
    BY <2>1, <2>3 DEF Here
<1>4. CASE t # f.table
  <2>1. tables'[t] = tables[t]
    BY <1>4 DEF CreatePOSOrder, Creates, Occupy
  <2>2. tables[t].current # o
    <3>1. o # NoOrder
      BY PosOrdersConstants
    <3>2. orders[o].status = "absent" /\ orders[o].deleted = "no"
      BY <1>2, AbsentIs
    <3>3. ~IsOpen(o) /\ orders[o].deleted # "yes"
      BY <3>2 DEF IsOpen, Live, Placed
    <3> QED
      BY <1>1, <3>1, <3>3 DEF Here
  <2> QED
    BY <1>1, <1>2, <2>1, <2>2, HereKept DEF IsOpen, Live, Placed
<1> QED
  BY ONLY ZenonT(30), <1>3, <1>4

LEMMA HereStep ==
  ASSUME OrdersType, CurrentOrderIsHere, [Next]_vars
  PROVE  CurrentOrderIsHere'
<1>0. ASSUME tables' = tables, \A x \in Orders :
               /\ orders'[x].table = orders[x].table /\ orders'[x].status = orders[x].status
               /\ orders'[x].deleted \in {orders[x].deleted, "yes"}
      PROVE  CurrentOrderIsHere'
  <2> SUFFICES ASSUME NEW t \in Tables PROVE Here(t)'
    BY DEF CurrentOrderIsHere, Here
  <2>1. Here(t)
    BY DEF CurrentOrderIsHere, Here
  <2> QED
    BY <1>0, <2>1, HereKept DEF IsOpen, Live, Placed
<1>1. ASSUME NEW o \in Orders, NEW f \in Forms, CreatePOSOrder(o, f)
      PROVE  CurrentOrderIsHere'
  BY <1>1, CreateHere
<1>2. ASSUME NEW o \in Orders, NEW e \in Edits, UpdateOrderItemsFull(o, e)
      PROVE  CurrentOrderIsHere'
  BY <1>0, <1>2 DEF UpdateOrderItemsFull, OrdersType, OrderRecords
<1>3. ASSUME NEW o \in Orders, NEW t \in Tables, TransferOrder(o, t)
      PROVE  CurrentOrderIsHere'
  BY <1>3, TransferHere
<1>4. ASSUME NEW o \in Orders, DeferOrderToDebtor(o)
      PROVE  CurrentOrderIsHere'
  BY SMTT(20), SMTT(30), <1>0, <1>4 DEF DeferOrderToDebtor, OrdersType, OrderRecords
<1>5. ASSUME NEW o \in Orders, NEW to \in Open \cup {"completed", "cancelled"}, OrderStatus(o, to)
      PROVE  CurrentOrderIsHere'
  BY ZenonT(30), <1>5, StatusHere DEF OrderStatus
<1>6. CASE AdvanceWrite
  <2>1. request.order \in Orders /\ request.target \in Open
    BY <1>6, UnderWay DEF AdvanceWrite, Open
  <2> QED
    BY <1>0, <1>6, <2>1, StatusHere DEF AdvanceWrite
<1>7. CASE DeleteWrite
  BY <1>0, <1>7 DEF DeleteWrite, OrdersType, OrderRecords
<1>8. CASE UNCHANGED <<orders, tables>>
  BY <1>0, <1>8
<1> QED
  BY Zenon, <1>1, <1>2, <1>3, <1>4, <1>5, <1>6, <1>7, <1>8
  DEF Next, vars, SettleDebtorPayment, AdvanceRead, DeleteCheck, Restart

\* CurrentOrderIsHere for any tables and orders: whatever is moved, advanced,
\* completed or deleted, a table never names an order that sits elsewhere or is done.
THEOREM TablesNameTheirOrder == Spec => []CurrentOrderIsHere
<1>1. Init => OrdersType /\ CurrentOrderIsHere
  BY OrdersTypeInit DEF Init, CurrentOrderIsHere
<1>2. OrdersType /\ CurrentOrderIsHere /\ [Next]_vars => (OrdersType /\ CurrentOrderIsHere)'
  BY OrdersTypeStep, HereStep
<1> QED
  BY <1>1, <1>2, PTL DEF Spec

----------------------------------------------------------------------------
(* Debtors.                                                                *)

\* An order and its debts: one exactly when the payment method says so.  The
\* counting form of DebtsAreTrue follows from it.
DebtsOf(o) ==
  /\ orders[o].method = "credit_debtor" => \E i \in DOMAIN debtors : debtors[i].order = o
  /\ \A i \in DOMAIN debtors : debtors[i].order = o => orders[o].method = "credit_debtor"
  /\ \A i, j \in DOMAIN debtors : debtors[i].order = o /\ debtors[j].order = o => i = j

TrueDebt(d) ==
  /\ d.paid + d.remaining = d.total /\ d.paid >= 0 /\ d.remaining >= 0
  /\ d.status = "paid" => d.remaining = 0
  /\ d.status = "partial" => d.remaining > 0
  /\ d.status = "open" => d.paid = 0

DebtsInv == (\A o \in Orders : DebtsOf(o)) /\ \A i \in DOMAIN debtors : TrueDebt(debtors[i])

LEMMA NewDebt ==
  ASSUME NEW o \in Orders, NEW n \in Nat
  PROVE  TrueDebt(Debt(o, n)) /\ Debt(o, n).order = o
BY DEF TrueDebt, Debt

LEMMA SettledDebt ==
  ASSUME NEW d \in DebtRecords, TrueDebt(d), NEW pay \in Nat \ {0}
  PROVE  TrueDebt(Settled(d, pay)) /\ Settled(d, pay).order = d.order
<1>1. CASE pay >= d.remaining
  BY <1>1 DEF TrueDebt, Settled, DebtRecords
<1>2. CASE ~(pay >= d.remaining)
  BY <1>2 DEF TrueDebt, Settled, DebtRecords
<1> QED
  BY <1>1, <1>2

\* The debts stay and the methods too.
LEMMA DebtsKept ==
  ASSUME DebtsInv, debtors' = debtors, \A o \in Orders : orders'[o].method = orders[o].method
  PROVE  DebtsInv'
BY DEF DebtsInv, DebtsOf

\* One order without a debt gets one.
LEMMA DebtAdded ==
  ASSUME OrdersType, DebtsInv, NEW o \in Orders, NEW n \in Nat, orders[o].method # "credit_debtor",
         debtors' = Append(debtors, Debt(o, n)), orders'[o].method = "credit_debtor",
         \A x \in Orders \ {o} : orders'[x].method = orders[x].method
  PROVE  DebtsInv'
<1>1. debtors \in Seq(DebtRecords)
  BY DEF OrdersType
<1>2. /\ Len(debtors) \in Nat /\ DOMAIN debtors = 1..Len(debtors) /\ DOMAIN debtors' = 1..(Len(debtors) + 1)
      /\ \A i \in DOMAIN debtors : debtors'[i] = debtors[i]
      /\ debtors'[Len(debtors) + 1] = Debt(o, n)
  BY <1>1
<1>3. TrueDebt(Debt(o, n)) /\ Debt(o, n).order = o
  BY NewDebt
<1>4. \A i \in DOMAIN debtors' : i \in DOMAIN debtors \/ i = Len(debtors) + 1
  BY <1>2
<1>5. \A i \in DOMAIN debtors' : TrueDebt(debtors'[i])
  BY <1>2, <1>3, <1>4 DEF DebtsInv
<1>6. Len(debtors) + 1 \in DOMAIN debtors' /\ \A i \in DOMAIN debtors : i \in DOMAIN debtors' /\ i # Len(debtors) + 1
  BY <1>2
<1>7. ASSUME NEW x \in Orders \ {o}
      PROVE  DebtsOf(x)'
  <2>1. DebtsOf(x)
    BY DEF DebtsInv
  <2>2. \A i \in DOMAIN debtors' : debtors'[i].order = x => i \in DOMAIN debtors /\ debtors[i].order = x
    BY <1>2, <1>3, <1>4
  <2> QED
    BY <1>2, <1>6, <2>1, <2>2 DEF DebtsOf
<1>8. DebtsOf(o)'
  <2>1. \A i \in DOMAIN debtors : debtors[i].order # o
    BY DEF DebtsInv, DebtsOf
  <2>2. \A i \in DOMAIN debtors' : debtors'[i].order = o => i = Len(debtors) + 1
    BY ONLY SMTT(20), SMTT(30), <1>2, <1>4, <2>1
  <2> QED
    BY <1>2, <1>3, <1>6, <2>2 DEF DebtsOf
<1> QED
  BY <1>5, <1>7, <1>8 DEF DebtsInv

LEMMA DebtsInvStep ==
  ASSUME OrdersType, DebtsInv, [Next]_vars
  PROVE  DebtsInv'
<1>1. ASSUME NEW o \in Orders, NEW f \in Forms, CreatePOSOrder(o, f)
      PROVE  DebtsInv'
  <2>1. /\ orders'[o] = New(f) /\ (\A x \in Orders \ {o} : orders'[x] = orders[x])
        /\ orders[o].method = "paid" /\ New(f).method = f.method
    <3>1. orders' = [orders EXCEPT ![o] = New(f)] /\ New(f) \in OrderRecords /\ New(f).status # "absent"
      BY Zenon, <1>1, NewType DEF CreatePOSOrder, Creates
    <3>2. orders[o] = Absent
      BY <1>1 DEF CreatePOSOrder, Placed, OrdersType
    <3>3. orders[o].method = "paid"
      BY <3>2, AbsentIs
    <3>4. New(f).method = f.method
      BY DEF New
    <3> QED
      BY Zenon, <3>1, <3>3, <3>4, OneOrder
  <2>2. f.total \in Nat /\ f.method \in {"paid", "credit_debtor"}
    BY PosOrdersConstants
  <2>3. CASE f.method = "credit_debtor"
    BY <1>1, <2>1, <2>2, <2>3, DebtAdded DEF CreatePOSOrder, Creates
  <2>4. CASE f.method = "paid"
    BY <1>1, <2>1, <2>4, DebtsKept DEF CreatePOSOrder, Creates
  <2> QED
    BY <2>2, <2>3, <2>4
<1>2. ASSUME NEW o \in Orders, NEW e \in Edits, UpdateOrderItemsFull(o, e)
      PROVE  DebtsInv'
  BY <1>2, DebtsKept DEF UpdateOrderItemsFull, OrdersType, OrderRecords
<1>3. ASSUME NEW o \in Orders, NEW t \in Tables, TransferOrder(o, t)
      PROVE  DebtsInv'
  BY <1>3, DebtsKept DEF TransferOrder, OrdersType, OrderRecords
<1>4. ASSUME NEW o \in Orders, DeferOrderToDebtor(o)
      PROVE  DebtsInv'
  <2>1. orders[o] \in OrderRecords /\ orders[o].total \in Nat
    BY DEF OrdersType, OrderRecords
  <2>2. orders'[o].method = "credit_debtor" /\ \A x \in Orders \ {o} : orders'[x].method = orders[x].method
    BY <1>4, <2>1 DEF DeferOrderToDebtor, OrdersType, OrderRecords
  <2> QED
    BY <1>4, <2>1, <2>2, DebtAdded DEF DeferOrderToDebtor
<1>5. ASSUME NEW i \in DOMAIN debtors, NEW pay \in Pays, SettleDebtorPayment(i, pay)
      PROVE  DebtsInv'
  <2>1. debtors[i] \in DebtRecords /\ TrueDebt(debtors[i]) /\ pay \in Nat \ {0}
    BY PosOrdersConstants DEF OrdersType, DebtsInv
  <2>2. TrueDebt(Settled(debtors[i], pay)) /\ Settled(debtors[i], pay).order = debtors[i].order
    BY <2>1, SettledDebt
  <2>3. /\ DOMAIN debtors' = DOMAIN debtors /\ debtors'[i] = Settled(debtors[i], pay)
        /\ \A j \in DOMAIN debtors \ {i} : debtors'[j] = debtors[j]
    BY <1>5 DEF SettleDebtorPayment, OrdersType
  <2>4. orders' = orders /\ \A j \in DOMAIN debtors : debtors'[j].order = debtors[j].order
    BY ZenonT(30), <1>5, <2>2, <2>3 DEF SettleDebtorPayment
  <2>5. \A j \in DOMAIN debtors' : TrueDebt(debtors'[j])
    BY <2>2, <2>3 DEF DebtsInv
  <2>6. ASSUME NEW o \in Orders
        PROVE  DebtsOf(o)'
    <3>1. DebtsOf(o)
      BY DEF DebtsInv
    <3>2. DOMAIN debtors' = DOMAIN debtors
      BY <2>3
    <3> QED
      BY <2>4, <3>1, <3>2 DEF DebtsOf
  <2> QED
    BY <2>5, <2>6 DEF DebtsInv
<1>6. ASSUME NEW o \in Orders, NEW to \in Open \cup {"completed", "cancelled"}, OrderStatus(o, to)
      PROVE  DebtsInv'
  BY <1>6, StatusFields, DebtsKept DEF OrderStatus
<1>7. CASE AdvanceWrite
  <2>1. request.order \in Orders
    BY <1>7, UnderWay DEF AdvanceWrite, Open
  <2>2. debtors' = debtors /\ \A o \in Orders : orders'[o].method = orders[o].method
    BY <1>7, <2>1, StatusFields DEF AdvanceWrite
  <2> QED
    BY <2>2, DebtsKept
<1>8. CASE DeleteWrite
  BY <1>8, DebtsKept DEF DeleteWrite, OrdersType, OrderRecords
<1>9. CASE UNCHANGED <<orders, debtors>>
  BY <1>9, DebtsKept
<1> QED
  BY Zenon, <1>1, <1>2, <1>3, <1>4, <1>5, <1>6, <1>7, <1>8, <1>9
  DEF Next, vars, AdvanceRead, DeleteCheck, Restart

\* A set with exactly one member has size one, a set without a member size zero.
LEMMA SizeOfOne ==
  ASSUME NEW S
  PROVE  /\ (\A x \in S : FALSE) => Cardinality(S) = 0
         /\ (\E x \in S : TRUE) /\ (\A x, y \in S : x = y) => Cardinality(S) = 1
<1>1. (\A x \in S : FALSE) => S = {}
  OBVIOUS
<1>2. ASSUME NEW x \in S, \A a, b \in S : a = b
      PROVE  S = {x}
  BY <1>2
<1> QED
  BY <1>1, <1>2, FS_EmptySet, FS_Singleton

\* DebtsAreTrue, for any orders, forms and payments: CreatePOSOrder and
\* DeferOrderToDebtor never make two debts for an order, and SettleDebtorPayment keeps
\* each in balance.
THEOREM DebtsBalance == Spec => []DebtsAreTrue
<1>1. Init => OrdersType /\ DebtsInv
  BY OrdersTypeInit, AtTheStart DEF DebtsInv, DebtsOf
<1>2. OrdersType /\ DebtsInv /\ [Next]_vars => (OrdersType /\ DebtsInv)'
  BY OrdersTypeStep, DebtsInvStep
<1>3. DebtsInv => DebtsAreTrue
  <2> SUFFICES ASSUME DebtsInv PROVE DebtsAreTrue
    OBVIOUS
  <2>1. ASSUME NEW o \in Orders
        PROVE  Cardinality({i \in DOMAIN debtors : debtors[i].order = o})
                 = IF orders[o].method = "credit_debtor" THEN 1 ELSE 0
    <3> DEFINE own == {i \in DOMAIN debtors : debtors[i].order = o}
    <3>1. DebtsOf(o)
      BY DEF DebtsInv
    <3>2. /\ orders[o].method = "credit_debtor" => \E i \in own : TRUE
          /\ orders[o].method # "credit_debtor" => \A i \in own : FALSE
          /\ \A i, j \in own : i = j
      BY <3>1 DEF DebtsOf
    <3> HIDE DEF own
    <3>3. Cardinality(own) = IF orders[o].method = "credit_debtor" THEN 1 ELSE 0
      BY <3>2, SizeOfOne
    <3> QED
      BY <3>3 DEF own
  <2>2. \A i \in DOMAIN debtors : TrueDebt(debtors[i])
    BY DEF DebtsInv
  <2> QED
    BY <2>1, <2>2 DEF DebtsAreTrue, TrueDebt
<1> QED
  BY <1>1, <1>2, <1>3, PTL DEF Spec

----------------------------------------------------------------------------
(* Recipes.                                                                *)

\* The deduction of one order, without counting.
DeductionOf(o) ==
  /\ orders[o].status = "completed" /\ Recipe > 0 => \E m \in DOMAIN movements : movements[m].order = o
  /\ \A m \in DOMAIN movements :
       movements[m].order = o => /\ orders[o].status = "completed" /\ Recipe > 0
                                 /\ movements[m].raw = -(Recipe * orders[o].units)
  /\ \A m, n \in DOMAIN movements : movements[m].order = o /\ movements[n].order = o => m = n

DeductionInv == \A o \in Orders : DeductionOf(o)

\* Nothing is completed or edited after completion, and no movement is made.
LEMMA DeductionKept ==
  ASSUME DeductionInv, movements' = movements,
         \A o \in Orders : /\ orders'[o].status = "completed" <=> orders[o].status = "completed"
                           /\ orders[o].status = "completed" => orders'[o].units = orders[o].units
  PROVE  DeductionInv'
<1> SUFFICES ASSUME NEW o \in Orders PROVE DeductionOf(o)'
  BY DEF DeductionInv
<1>1. DeductionOf(o)
  BY DEF DeductionInv
<1> QED
  BY <1>1 DEF DeductionOf

LEMMA StatusDeducts ==
  ASSUME OrdersType, DeductionInv, NEW o \in Orders, NEW to \in Open \cup {"completed", "cancelled"},
         UpdateLocalOrderStatusReason(o, to)
  PROVE  DeductionInv'
<1>1. /\ \A x \in Orders \ {o} : orders'[x] = orders[x]
      /\ orders'[o].status = to /\ orders'[o].units = orders[o].units
  BY StatusFields
<1>2. orders[o].status # "completed"
  BY DEF UpdateLocalOrderStatusReason, Admits, validOrderTransition, Open
<1>3. CASE to # "completed"
  BY <1>1, <1>2, <1>3, DeductionKept DEF UpdateLocalOrderStatusReason, SetsStatus, stockVars
<1>4. CASE to = "completed"
  <2> DEFINE u == orders[o].units
  <2>1. u \in Nat \ {0} /\ Recipe \in Nat
    BY InventoryConstants DEF OrdersType, OrderRecords
  <2>2. Deduct(o, u)
    BY <1>4 DEF UpdateLocalOrderStatusReason, SetsStatus
  <2>3. \A m \in DOMAIN movements : movements[m].order # o
    BY <1>2 DEF DeductionInv, DeductionOf
  <2>4. CASE Recipe = 0
    <3>1. Recipe * u = 0
      BY <2>1, <2>4
    <3>2. movements' = movements
      BY <2>2, <3>1 DEF Deduct
    <3>3. ASSUME NEW x \in Orders
          PROVE  DeductionOf(x)'
      <4>1. DeductionOf(x)
        BY DEF DeductionInv
      <4> QED
        <5>1. ~(Recipe > 0)
          BY <2>4
        <5>2. \A m \in DOMAIN movements : movements[m].order # x
          BY <4>1, <5>1 DEF DeductionOf
        <5> QED
          BY <3>2, <5>1, <5>2 DEF DeductionOf
    <3> QED
      BY <3>3 DEF DeductionInv
  <2>5. CASE Recipe # 0
    <3>1. Recipe * u # 0
      BY <2>1, <2>5
    <3>2. PICK f : movements' = Append(movements, Movement("consumption", f, -(Recipe * u), o))
      BY <2>2, <3>1 DEF Deduct
    <3> DEFINE mv == Movement("consumption", f, -(Recipe * u), o)
               n == Len(movements) + 1
    <3>3. mv.order = o /\ mv.raw = -(Recipe * u)
      BY DEF Movement
    <3>4. /\ DOMAIN movements' = DOMAIN movements \cup {n} /\ n \notin DOMAIN movements
          /\ movements'[n] = mv /\ \A m \in DOMAIN movements : movements'[m] = movements[m]
      <4>1. IsSeq(movements)
        BY DEF OrdersType, IsSeq
      <4>2. movements' = Append(movements, mv)
        BY <3>2
      <4> HIDE DEF mv
      <4> QED
        BY <4>1, <4>2, SeqAppend
    <3> HIDE DEF mv, n
    <3>5. ASSUME NEW x \in Orders \ {o}
          PROVE  DeductionOf(x)'
      <4>1. DeductionOf(x)
        BY DEF DeductionInv
      <4>2. \A m \in DOMAIN movements' : movements'[m].order = x => m \in DOMAIN movements /\ movements[m].order = x
        BY <3>3, <3>4
      <4>3. \A m \in DOMAIN movements : m \in DOMAIN movements' /\ movements'[m] = movements[m]
        BY <3>4
      <4>4. /\ orders'[x].status = "completed" <=> orders[x].status = "completed"
            /\ orders'[x].units = orders[x].units
        BY <1>1
      <4>5. \A m \in DOMAIN movements' : movements'[m].order = x =>
              m \in DOMAIN movements /\ movements[m].order = x /\ movements'[m] = movements[m]
        BY <4>2, <4>3
      <4> QED
        BY <4>1, <4>3, <4>4, <4>5 DEF DeductionOf
    <3>6. DeductionOf(o)'
      <4>1. \A m \in DOMAIN movements' : movements'[m].order = o => m = n
        BY <2>3, <3>4
      <4>2. Recipe > 0
        BY <2>1, <2>5
      <4> QED
        BY <1>1, <1>4, <3>3, <3>4, <4>1, <4>2 DEF DeductionOf
    <3> QED
      BY <3>5, <3>6 DEF DeductionInv
  <2> QED
    BY <2>4, <2>5
<1> QED
  BY <1>3, <1>4

LEMMA DeductionInvStep ==
  ASSUME OrdersType, DeductionInv, [Next]_vars
  PROVE  DeductionInv'
<1>1. ASSUME NEW o \in Orders, NEW f \in Forms, CreatePOSOrder(o, f)
      PROVE  DeductionInv'
  <2>1. /\ orders'[o] = New(f) /\ (\A x \in Orders \ {o} : orders'[x] = orders[x])
        /\ orders[o].status = "absent" /\ New(f).status = "pending"
    BY Zenon, <1>1, NewType, OneOrder DEF CreatePOSOrder, Creates, Placed
  <2> QED
    BY SMTT(20), SMTT(30), <1>1, <2>1, DeductionKept DEF CreatePOSOrder, Creates, stockVars
<1>2. ASSUME NEW o \in Orders, NEW e \in Edits, UpdateOrderItemsFull(o, e)
      PROVE  DeductionInv'
  <2>1. orders[o].status \in Open /\ orders'[o].status = orders[o].status
        /\ \A x \in Orders \ {o} : orders'[x] = orders[x]
    BY <1>2 DEF UpdateOrderItemsFull, IsOpen, OrdersType, OrderRecords
  <2> QED
    BY Zenon, <1>2, <2>1, DeductionKept DEF UpdateOrderItemsFull, stockVars, Open
<1>3. ASSUME NEW o \in Orders, NEW t \in Tables, TransferOrder(o, t)
      PROVE  DeductionInv'
  BY <1>3, DeductionKept DEF TransferOrder, OrdersType, OrderRecords, stockVars
<1>4. ASSUME NEW o \in Orders, DeferOrderToDebtor(o)
      PROVE  DeductionInv'
  BY SMTT(20), SMTT(30), <1>4, DeductionKept DEF DeferOrderToDebtor, OrdersType, OrderRecords, stockVars
<1>5. ASSUME NEW o \in Orders, NEW to \in Open \cup {"completed", "cancelled"}, OrderStatus(o, to)
      PROVE  DeductionInv'
  BY <1>5, StatusDeducts DEF OrderStatus
<1>6. CASE AdvanceWrite
  <2>1. request.order \in Orders /\ request.target \in Open
    BY <1>6, UnderWay DEF AdvanceWrite, Open
  <2> QED
    BY <1>6, <2>1, StatusDeducts, DeductionKept DEF AdvanceWrite, stockVars
<1>7. CASE DeleteWrite
  BY <1>7, DeductionKept DEF DeleteWrite, OrdersType, OrderRecords, stockVars
<1>8. CASE UNCHANGED <<orders, movements>>
  BY <1>8, DeductionKept
<1> QED
  BY ZenonT(30), <1>1, <1>2, <1>3, <1>4, <1>5, <1>6, <1>7, <1>8
  DEF Next, vars, SettleDebtorPayment, AdvanceRead, DeleteCheck, Restart, stockVars

\* DeductedOnce for any orders, edits and recipes: UpdateLocalOrderStatusReason takes
\* the recipe of an order from the stock once, for the units it was completed with.
THEOREM RecipesAreDeductedOnce == Spec => []DeductedOnce
<1>1. Init => OrdersType /\ DeductionInv
  BY OrdersTypeInit, AtTheStart DEF DeductionInv, DeductionOf
<1>2. OrdersType /\ DeductionInv /\ [Next]_vars => (OrdersType /\ DeductionInv)'
  BY OrdersTypeStep, DeductionInvStep
<1>3. DeductionInv => DeductedOnce
  <2> SUFFICES ASSUME DeductionInv, NEW o \in Orders
               PROVE  LET own == {m \in DOMAIN movements : movements[m].order = o}
                      IN IF orders[o].status = "completed" /\ Recipe > 0
                         THEN Cardinality(own) = 1 /\ \A m \in own : movements[m].raw = -(Recipe * orders[o].units)
                         ELSE own = {}
    BY DEF DeductedOnce
  <2> DEFINE own == {m \in DOMAIN movements : movements[m].order = o}
  <2>1. DeductionOf(o)
    BY DEF DeductionInv
  <2>2. CASE orders[o].status = "completed" /\ Recipe > 0
    <3>1. (\E m \in own : TRUE) /\ (\A m, n \in own : m = n)
      BY <2>1, <2>2 DEF DeductionOf
    <3>2. \A m \in own : movements[m].raw = -(Recipe * orders[o].units)
      BY <2>1 DEF DeductionOf
    <3> HIDE DEF own
    <3>3. Cardinality(own) = 1
      BY <3>1, SizeOfOne
    <3> QED
      BY <2>2, <3>2, <3>3 DEF own
  <2>3. CASE ~(orders[o].status = "completed" /\ Recipe > 0)
    BY <2>1, <2>3 DEF DeductionOf
  <2> QED
    BY <2>2, <2>3
<1> QED
  BY <1>1, <1>2, <1>3, PTL DEF Spec

----------------------------------------------------------------------------
(* The status machine.                                                     *)

\* The delete handler has seen an order that was not completed; one that it saw
\* cancelled still is.
DeletionInv ==
  request.target = "deleted" =>
    /\ request.seen \in Open \cup {"cancelled"}
    /\ request.seen = "cancelled" => orders[request.order].status = "cancelled"

Earlier ==
  [absent |-> {}, pending |-> {}, accepted |-> {"pending"}, preparing |-> {"pending", "accepted"},
   ready |-> {"pending", "accepted", "preparing"}, completed |-> Open, cancelled |-> Open]

LEMMA TransitionsGoForward ==
  ASSUME NEW from \in Statuses, NEW to \in Open \cup {"completed", "cancelled"},
         validOrderTransition(from, to), from # to
  PROVE  from \in Open /\ from \in Earlier[to]
<1>1. from \in Open
  BY DEF validOrderTransition
<1>2. CASE to \in {"completed", "cancelled"}
  BY <1>1, <1>2 DEF Earlier
<1>3. CASE to \in Open
  <2> DEFINE rank == [pending |-> 0, accepted |-> 1, preparing |-> 2, ready |-> 3]
  <2>1. rank[from] < rank[to]
    BY <1>3 DEF validOrderTransition, Open
  <2>2. rank["pending"] = 0 /\ rank["accepted"] = 1 /\ rank["preparing"] = 2 /\ rank["ready"] = 3
    BY ZenonT(30)
  <2>3. /\ Earlier["pending"] = {} /\ Earlier["accepted"] = {"pending"}
        /\ Earlier["preparing"] = {"pending", "accepted"}
        /\ Earlier["ready"] = {"pending", "accepted", "preparing"}
    BY DEF Earlier
  <2>4. /\ from \in {"pending", "accepted", "preparing", "ready"}
        /\ to \in {"pending", "accepted", "preparing", "ready"}
    BY <1>1, <1>3 DEF Open
  <2> HIDE DEF rank
  <2> QED
    BY ONLY SMTT(20), SMTT(30), <1>1, <2>1, <2>2, <2>3, <2>4
<1> QED
  BY <1>1, <1>2, <1>3

\* How the status of an order may change in a step.
Forward(o) ==
  /\ orders'[o].status # orders[o].status =>
       orders[o].status \in Open /\ orders[o].status \in Earlier[orders'[o].status]
  /\ orders[o].status \in {"completed", "cancelled"} =>
       /\ orders'[o].table = orders[o].table /\ orders'[o].units = orders[o].units
       /\ orders'[o].total = orders[o].total
  /\ orders'[o].deleted # orders[o].deleted => request.order = o /\ request.target = "deleted"

LEMMA StatusForward ==
  ASSUME OrdersType, NEW o \in Orders, NEW to \in Open \cup {"completed", "cancelled"},
         UpdateLocalOrderStatusReason(o, to)
  PROVE  \A x \in Orders : Forward(x)
<1>1. orders[o].status \in Statuses
  BY DEF OrdersType, OrderRecords
<1>2. orders[o].status \in Open /\ orders[o].status \in Earlier[to]
  BY <1>1, TransitionsGoForward DEF UpdateLocalOrderStatusReason, Admits
<1>3. orders[o].status \notin {"completed", "cancelled"}
  BY ZenonT(30), <1>2 DEF Open
<1>4. Forward(o)
  BY <1>2, <1>3, StatusFields DEF Forward
<1>5. \A x \in Orders \ {o} : orders'[x] = orders[x]
  BY StatusFields
<1>6. \A x \in Orders \ {o} : Forward(x)
  BY <1>5 DEF Forward
<1> QED
  BY <1>4, <1>6

LEMMA OrdersGoForward ==
  ASSUME OrdersType, [Next]_vars, NEW x \in Orders, Placed(x)
  PROVE  Forward(x)
<1>0. \A o \in Orders : orders[o] \in OrderRecords
  BY DEF OrdersType
<1>1. ASSUME NEW o \in Orders, NEW f \in Forms, CreatePOSOrder(o, f)
      PROVE  Forward(x)
  <2>1. orders'[x] = orders[x]
    BY Zenon, <1>1, NewType, OneOrder DEF CreatePOSOrder, Creates
  <2> QED
    BY ONLY SMTT(20), SMTT(30), <2>1 DEF Forward
<1>2. ASSUME NEW o \in Orders, NEW e \in Edits, UpdateOrderItemsFull(o, e)
      PROVE  Forward(x)
  <2>1. orders[o].status \in Open /\ orders'[o].status = orders[o].status
        /\ orders'[o].deleted = orders[o].deleted /\ (x # o => orders'[x] = orders[x])
    BY <1>2 DEF UpdateOrderItemsFull, IsOpen, OrdersType, OrderRecords
  <2> QED
    BY <2>1 DEF Forward, Open
<1>3. ASSUME NEW o \in Orders, NEW t \in Tables, TransferOrder(o, t)
      PROVE  Forward(x)
  <2>1. orders[o].status \in Open /\ orders'[o].status = orders[o].status
        /\ orders'[o].deleted = orders[o].deleted /\ (x # o => orders'[x] = orders[x])
    BY <1>3 DEF TransferOrder, CanTransfer, IsOpen, OrdersType, OrderRecords
  <2> QED
    BY <2>1 DEF Forward, Open
<1>4. ASSUME NEW o \in Orders, DeferOrderToDebtor(o)
      PROVE  Forward(x)
  BY <1>0, <1>4 DEF DeferOrderToDebtor, OrdersType, OrderRecords, Forward
<1>5. ASSUME NEW o \in Orders, NEW to \in Open \cup {"completed", "cancelled"}, OrderStatus(o, to)
      PROVE  Forward(x)
  BY <1>5, StatusForward DEF OrderStatus
<1>6. CASE AdvanceWrite
  <2>1. request.order \in Orders /\ request.target \in Open
    BY <1>6, UnderWay DEF AdvanceWrite, Open
  <2>2. CASE UNCHANGED orders
    BY <2>2 DEF Forward
  <2> QED
    BY <1>6, <2>1, <2>2, StatusForward DEF AdvanceWrite
<1>7. CASE DeleteWrite
  BY <1>0, <1>7 DEF DeleteWrite, OrdersType, OrderRecords, Forward
<1>8. CASE UNCHANGED orders
  BY <1>8 DEF Forward
<1> QED
  BY Zenon, <1>1, <1>2, <1>3, <1>4, <1>5, <1>6, <1>7, <1>8
  DEF Next, vars, SettleDebtorPayment, AdvanceRead, DeleteCheck, Restart

LEMMA DeletionInvStep ==
  ASSUME OrdersType, DeletionInv, [Next]_vars
  PROVE  DeletionInv'
<1>1. ASSUME NEW o \in Orders, DeleteCheck(o)
      PROVE  DeletionInv'
  <2>1. orders[o].status \in Open \cup {"cancelled"}
    BY <1>1 DEF DeleteCheck, Live, Placed, OrdersType, OrderRecords, Statuses
  <2> QED
    BY <1>1, <2>1 DEF DeleteCheck, DeletionInv, Open
<1>2. ASSUME NEW o \in Orders, NEW enabled \in Stages, AdvanceRead(o, enabled)
      PROVE  DeletionInv'
  BY Zenon, <1>2, AdvanceTarget DEF AdvanceRead, DeletionInv, Open
<1>3. CASE request' = Idle
  BY <1>3 DEF DeletionInv, Idle
<1>4. CASE request' = request
  <2> SUFFICES ASSUME request.target = "deleted" PROVE DeletionInv'
    BY <1>4 DEF DeletionInv
  <2>1. request.order \in Orders /\ Placed(request.order)
    BY UnderWay
  <2>2. Forward(request.order)
    BY <2>1, OrdersGoForward
  <2> QED
    BY <1>4, <2>2 DEF DeletionInv, Forward, Open
<1> QED
  BY ZenonT(30), <1>1, <1>2, <1>3, <1>4
  DEF Next, vars, CreatePOSOrder, Creates, UpdateOrderItemsFull, TransferOrder, DeferOrderToDebtor,
      SettleDebtorPayment, OrderStatus, AdvanceWrite, DeleteWrite, Restart

\* OnlyForward for any orders, tables, edits and stages: validOrderTransition holds
\* at every write, whatever AdvanceRead and DeleteCheck read before.
THEOREM OrdersOnlyGoForward == Spec => OnlyForward
<1>1. Init => OrdersType /\ DeletionInv
  BY ZenonT(30), OrdersTypeInit, AtTheStart DEF DeletionInv
<1>2. OrdersType /\ DeletionInv /\ [Next]_vars => (OrdersType /\ DeletionInv)'
  BY OrdersTypeStep, DeletionInvStep
<1>3. OrdersType /\ DeletionInv /\ [Next]_vars =>
        [\A o \in Orders :
           LET was == orders[o]
               is == orders'[o]
               earlier == [absent |-> {}, pending |-> {}, accepted |-> {"pending"},
                           preparing |-> {"pending", "accepted"},
                           ready |-> {"pending", "accepted", "preparing"},
                           completed |-> Open, cancelled |-> Open]
           IN Placed(o) =>
                /\ is.status # was.status => was.status \in earlier[is.status]
                /\ was.status \in {"completed", "cancelled"} =>
                     is.table = was.table /\ is.units = was.units /\ is.total = was.total
                /\ was.status = "completed" /\ is.deleted # was.deleted =>
                     request.order = o /\ request.seen \in Open]_vars
  <2> SUFFICES ASSUME OrdersType, DeletionInv, [Next]_vars, NEW o \in Orders, Placed(o)
               PROVE  /\ orders'[o].status # orders[o].status => orders[o].status \in Earlier[orders'[o].status]
                      /\ orders[o].status \in {"completed", "cancelled"} =>
                           /\ orders'[o].table = orders[o].table /\ orders'[o].units = orders[o].units
                           /\ orders'[o].total = orders[o].total
                      /\ orders[o].status = "completed" /\ orders'[o].deleted # orders[o].deleted =>
                           request.order = o /\ request.seen \in Open
    BY Zenon DEF Earlier
  <2>1. Forward(o)
    BY OrdersGoForward
  <2> QED
    BY SMTT(20), SMTT(30), <2>1 DEF Forward, DeletionInv, Open
<1> QED
  BY <1>1, <1>2, <1>3, PTL DEF Spec, OnlyForward

=============================================================================
