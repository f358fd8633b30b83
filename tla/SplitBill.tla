----------------------------- MODULE SplitBill ------------------------------
(***************************************************************************)
(* The split bill of one order of the desktop point of sale: several guests *)
(* pay parts of it, the cashier undoes payments and edits the items         *)
(* meanwhile, and the browser repeats requests.  SplitBillOf, splitQuote,   *)
(* RecordSplitPayment, UndoLastSplitPayment and UpdateOrderItemsFull in     *)
(* offline-menuvex/internal/store/domains.go; each is one transaction.      *)
(***************************************************************************)
EXTENDS Integers, Sequences, Functions

CONSTANTS
  Carts,        \* what may be ordered: sequences of [qty, price]
  Discounts,    \* discount_irr a form may hold
  Extras,       \* extra_irr a form may hold
  Tokens,       \* client tokens, one per submission of the payment form
  NoToken,      \* a form without one
  Width,        \* bits of an int64
  MaxPayments,  \* bound: payments on the order at a time
  MaxEdits      \* bound: edits of the items

ASSUME SplitBillConstants ==
  /\ \A c \in Carts : c # <<>> /\ c \in Seq([qty : Nat \ {0}, price : Nat])
  /\ Discounts \subseteq Int /\ Extras \subseteq Int
  /\ NoToken \notin Tokens
  /\ Width \in Nat \ {0} /\ MaxPayments \in Nat /\ MaxEdits \in Nat

\* Arithmetic, which the provers lack: half of an int64's values are negative.
ASSUME PowersOfTwo == 2^(Width - 1) \in Nat \ {0} /\ 2^Width = 2 * 2^(Width - 1)

VARIABLES
  status,    \* "open" stands for the four open states of an order
  items,     \* its lines: [id, qty, total]
  discount,  \* discount_irr
  extra,     \* extra_irr
  total,     \* total_irr
  payments,  \* split_payments, in the order they were recorded
  summary,   \* split_paid_irr, split_remaining_irr and split_status
  edits,     \* number of edits so far; it makes line IDs fresh
  edited     \* history: "yes" while some recorded payment is older than the items

vars == <<status, items, discount, extra, total, payments, summary, edits, edited>>

Clip(n) == IF n < 0 THEN 0 ELSE n

\* What a Go int64 holds when the mathematical value is n.
Int64(n) == ((n + 2^(Width - 1)) % 2^Width) - 2^(Width - 1)

-----------------------------------------------------------------------------
(* The amounts of an order: CreatePOSOrder and UpdateOrderItemsFull. *)

Lines(cart, n) ==
  [i \in DOMAIN cart |-> [id |-> <<n, i>>, qty |-> cart[i].qty,
                          total |-> cart[i].qty * cart[i].price]]

Subtotal(ls) == SumFunction([i \in DOMAIN ls |-> ls[i].total])

ClampDiscount(d, ls) == IF Clip(d) > Subtotal(ls) THEN Subtotal(ls) ELSE Clip(d)

OrderTotal(ls, d, e) == Clip(Subtotal(ls) - ClampDiscount(d, ls) + Clip(e))

-----------------------------------------------------------------------------
(* SplitBillOf: the order's total is spread over its lines in proportion,  *)
(* the last line takes what rounding left over.                            *)

PaidAmt(ps, id) ==
  SumFunction([k \in DOMAIN ps |-> IF id \in DOMAIN ps[k].lines THEN ps[k].lines[id].amount ELSE 0])

PaidQty(ps, id) ==
  SumFunction([k \in DOMAIN ps |-> IF id \in DOMAIN ps[k].lines THEN ps[k].lines[id].qty ELSE 0])

PaidSum(ps) == SumFunction([k \in DOMAIN ps |-> ps[k].amount])

\* The share of a line that is not the last one.
Share(ls, t, i) == Clip(Int64(ls[i].total * t) \div Subtotal(ls))

\* LinePayableIRR of every line.
Payable(ls, t) ==
  LET last == Len(ls)
      allocated == SumFunction([i \in 1..(last - 1) |-> Share(ls, t, i)])
  IN [i \in DOMAIN ls |-> IF Subtotal(ls) <= 0 \/ t <= 0 THEN 0
                          ELSE IF i = last THEN Clip(t - allocated) ELSE Share(ls, t, i)]

\* Mutant: what was paid of a line is not taken off its rest.
SplitBillOf_ignores_paid(ls, t) ==
  LET payable == Payable(ls, t)
  IN [i \in DOMAIN ls |->
       [id |-> ls[i].id, quantity |-> ls[i].qty, paidQty |-> PaidQty(payments, ls[i].id),
        unit |-> payable[i] \div ls[i].qty, payable |-> payable[i],
        remaining |-> payable[i]]]

SplitBillOf(ls, t) ==
  LET payable == Payable(ls, t)
  IN [i \in DOMAIN ls |->
       [id |-> ls[i].id, quantity |-> ls[i].qty, paidQty |-> PaidQty(payments, ls[i].id),
        unit |-> payable[i] \div ls[i].qty, payable |-> payable[i],
        remaining |-> Clip(payable[i] - PaidAmt(payments, ls[i].id))]]

\* Mutant: the last units of a line cost the rounded price of a unit.
splitQuote_by_unit(l, qty) ==
  IF qty <= 0 \/ l.quantity - l.paidQty <= 0 THEN 0
  ELSE IF qty * l.unit > l.remaining THEN l.remaining ELSE qty * l.unit

\* Taking all that is left of a line costs exactly what is left of it.
splitQuote(l, qty) ==
  LET unpaid == l.quantity - l.paidQty
      byUnit == qty * l.unit
      amt == IF byUnit <= 0 THEN (l.remaining * qty) \div unpaid ELSE byUnit
  IN IF qty <= 0 \/ unpaid <= 0 THEN 0
     ELSE IF qty >= unpaid THEN l.remaining
     ELSE IF amt > l.remaining THEN l.remaining ELSE amt

Summary(ps, t) ==
  LET sum == PaidSum(ps)
      rem == Clip(t - sum)
  IN [paid |-> sum, remaining |-> rem,
      status |-> IF rem = 0 /\ t > 0 THEN "PAID" ELSE IF sum > 0 THEN "PARTIAL" ELSE "UNPAID"]

NoSummary == [paid |-> 0, remaining |-> 0, status |-> "none"]

-----------------------------------------------------------------------------
Init ==
  /\ status = "open"
  /\ edits = 0
  /\ \E c \in Carts, d \in Discounts, e \in Extras :
       /\ items = Lines(c, 0)
       /\ discount = ClampDiscount(d, items)
       /\ extra = Clip(e)
       /\ total = OrderTotal(items, d, e)
  /\ payments = <<>>
  /\ summary = NoSummary
  /\ edited = "no"

\* The guests' choice: how many units of which lines.
Picks == UNION {[S -> UNION {1..items[i].qty : i \in DOMAIN items}] :
                  S \in (SUBSET {items[i].id : i \in DOMAIN items}) \ {{}}}

\* RecordSplitPayment's check of the picks.
Accepts(bill, picks) ==
  \A i \in DOMAIN bill : bill[i].id \in DOMAIN picks =>
    picks[bill[i].id] <= bill[i].quantity - bill[i].paidQty

PayLines(bill, picks) ==
  [id \in DOMAIN picks |->
     LET i == CHOOSE j \in DOMAIN bill : bill[j].id = id
     IN [qty |-> picks[id], amount |-> splitQuote(bill[i], picks[id])]]

LinesAmount(pl) == SumFunction([id \in DOMAIN pl |-> pl[id].amount])

\* Mutant: the client token is stored but not looked up.
RecordSplitPayment_without_token(picks, token) ==
  LET bill == SplitBillOf(items, total)
      pl == PayLines(bill, picks)
      ps == Append(payments, [token |-> token, lines |-> pl, amount |-> LinesAmount(pl)])
  IN /\ status = "open" /\ Len(payments) < MaxPayments
     /\ Accepts(bill, picks)
     /\ LinesAmount(pl) > 0
     /\ payments' = ps
     /\ summary' = Summary(ps, total)
     /\ UNCHANGED <<status, items, discount, extra, total, edits, edited>>

\* A token that is already on the order changes nothing and reports success.
RecordSplitPayment(picks, token) ==
  LET bill == SplitBillOf(items, total)
      pl == PayLines(bill, picks)
      ps == Append(payments, [token |-> token, lines |-> pl, amount |-> LinesAmount(pl)])
  IN /\ status = "open" /\ Len(payments) < MaxPayments
     /\ token # NoToken => \A k \in DOMAIN payments : payments[k].token # token
     /\ Accepts(bill, picks)
     /\ LinesAmount(pl) > 0
     /\ payments' = ps
     /\ summary' = Summary(ps, total)
     /\ UNCHANGED <<status, items, discount, extra, total, edits, edited>>

\* Refused for a completed order only; the payments of a cancelled one can be undone.
UndoLastSplitPayment ==
  LET ps == SubSeq(payments, 1, Len(payments) - 1)
  IN /\ status \in {"open", "cancelled"}
     /\ payments # <<>>
     /\ payments' = ps
     /\ summary' = Summary(ps, total)
     /\ edited' = IF ps = <<>> THEN "no" ELSE edited
     /\ UNCHANGED <<status, items, discount, extra, total, edits>>

\* New lines with new IDs and a new total; payments and their summary stay.
\* A form that leaves out discount or extra keeps the order's (d = discount).
UpdateOrderItemsFull(cart, d, e) ==
  /\ status = "open" /\ edits < MaxEdits
  /\ edits' = edits + 1
  /\ items' = Lines(cart, edits + 1)
  /\ discount' = ClampDiscount(d, items')
  /\ extra' = Clip(e)
  /\ total' = OrderTotal(items', d, e)
  /\ edited' = IF payments = <<>> THEN "no" ELSE "yes"
  /\ UNCHANGED <<status, payments, summary>>

\* The order is completed, cancelled or deleted, paid or not.
CloseOrder(s) ==
  /\ status = "open" \/ (status = "cancelled" /\ s = "deleted")
  /\ status' = s
  /\ UNCHANGED <<items, discount, extra, total, payments, summary, edits, edited>>

Next ==
  \/ \E picks \in Picks, token \in Tokens \cup {NoToken} : RecordSplitPayment(picks, token)
  \/ UndoLastSplitPayment
  \/ \E c \in Carts, d \in Discounts \cup {discount}, e \in Extras \cup {extra} :
       UpdateOrderItemsFull(c, d, e)
  \/ \E s \in {"completed", "cancelled", "deleted"} : CloseOrder(s)

Spec == Init /\ [][Next]_vars

-----------------------------------------------------------------------------
(* Properties *)

\* The table's card shows the bill as settled.
SplitSettled == Clip(total - PaidSum(payments)) = 0 /\ summary.status = "PAID"

\* The products of SplitBillOf stay within an int64.
Fits == \A i \in DOMAIN items : items[i].total * total < 2^(Width - 1)

\* RecordSplitPayment and UndoLastSplitPayment, in any order: the guests together
\* never pay more than the order or more for a line than its share, unless the
\* items were edited after a payment that still stands.
NeverOverpaid ==
  Fits /\ edited = "no" =>
    /\ PaidSum(payments) <= total
    /\ \A i \in DOMAIN items : PaidAmt(payments, items[i].id) <= Payable(items, total)[i]

\* RecordSplitPayment: a payment form that arrives twice is recorded once.
PaymentOncePerToken ==
  \A j, k \in DOMAIN payments :
    payments[j].token = payments[k].token /\ payments[j].token # NoToken => j = k

\* SplitBillOf and splitQuote: whatever rounding does, the lines' shares add up
\* to the order's total, with a discount that eats most of it or extras on top
\* (an order whose items are all free has no shares, even when extras make it
\* cost something).  When all units of a line are paid, its share is paid to the
\* last rial, however the guests divided it, so when every unit is paid nothing
\* of the order remains.  The table's card then, and only then, says settled.
SettlesExactly ==
  /\ Fits /\ Subtotal(items) > 0 =>
       SumFunction(Payable(items, total)) = total
  /\ edited = "no" =>
       /\ \A i \in DOMAIN items :
            PaidQty(payments, items[i].id) = items[i].qty => PaidAmt(payments, items[i].id) = Payable(items, total)[i]
       /\ (/\ Fits /\ Subtotal(items) > 0
           /\ \A i \in DOMAIN items : PaidQty(payments, items[i].id) = items[i].qty)
            => PaidSum(payments) = total
       /\ SplitSettled <=> total > 0 /\ PaidSum(payments) >= total
=============================================================================
