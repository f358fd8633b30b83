---------------------------- MODULE MCPosOrders -----------------------------
(* Instances of PosOrders for TLC. *)
EXTENDS PosOrders, TLC

CONSTANTS t1, t2, k

F(token, t, member, method, total, units) ==
  [token |-> token, table |-> t, member |-> member, method |-> method, total |-> total, units |-> units]

\* A member's form that may arrive twice, a guest on credit at the same table, and an
\* order to take away.
ThreeForms ==
  {F(k, t1, "yes", "paid", 3, 1), F(NoToken, t1, "no", "credit_debtor", 3, 2),
   F(NoToken, NoTable, "yes", "paid", 0, 1)}

OneEdit == {[total |-> 3, units |-> 2]}

\* Preparing is switched off.
OneSetting == {{"accepted", "ready"}}

OrderSymmetry == Permutations(Orders)
=============================================================================
