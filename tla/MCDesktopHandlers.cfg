SPECIFICATION HandlersSpec
CONSTANTS
  Workers = {w1, w2}
  Ids = {1, 2, 3}
  ListLimit = 2
  MaxRequests = 3
  Phones = {"a", "b"}
  References = {"x", "y"}
  Copies = {1}
  Labels = {"l", "m"}
  Callers = {c1, c2}
  Secrets = {s1, s2, s3, s4}
  Tokens = {k1, k2}
  MaxActivations = 3
  NoSecret = NoSecret
SYMMETRY HandlerSymmetry
INVARIANTS
  PaidIsMember
  RecipeInsteadOfStock
  
  LoggedOutStaysOut
PROPERTIES
  InTurn
\* Requests are bounded: the till may well have nothing to do.
CHECK_DEADLOCK FALSE
