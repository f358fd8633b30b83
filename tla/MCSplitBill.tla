---------------------------- MODULE MCSplitBill -----------------------------
(* Instances of SplitBill for TLC. *)
EXTENDS SplitBill

L(q, p) == [qty |-> q, price |-> p]

\* Lines of several units whose shares do not divide, free lines, and an order so
\* large that the products of SplitBillOf overflow.
SmallCarts == {<<L(2, 5), L(1, 3)>>, <<L(3, 3), L(1, 0)>>,
               <<L(1, 4), L(1, 0), L(2, 1)>>}
BigCart == {<<L(1, 15), L(1, 4)>>}
AllCarts == SmallCarts \cup BigCart
=============================================================================
