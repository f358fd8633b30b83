\* Payments, repeated forms, undoing and edits; amounts that do and do not divide.
SPECIFICATION Spec
CONSTANTS
  Carts <- AllCarts
  Discounts = {0, 7}
  Extras = {1}
  Tokens = {t1}
  NoToken = none
  Width = 9
  MaxPayments = 3
  MaxEdits = 1
INVARIANTS
  NeverOverpaid
  SettlesExactly
  PaymentOncePerToken
\* A completed or deleted order is final.
CHECK_DEADLOCK FALSE
