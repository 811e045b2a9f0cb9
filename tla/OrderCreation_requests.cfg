SPECIFICATION Spec
CONSTANTS
  Request = {r1, r2, r3}
  Faulty = {r1}
  PONumber = {n1, n2}
  Basket <- MCBasket
  QuantityUnit = 4
  PriceUnit = 2
  AmountLimit = 1000
  QuantityLimit = 100000
  None = None
SYMMETRY RequestSymmetry
INVARIANTS
  TypeOK
  NumbersAreUnique
  OrdersComeWhole
  AmountsTally
  LinesExplainSubtotal
  AnswersMatchRows
CHECK_DEADLOCK FALSE
