CONSTANTS
  Lines = {l1}
  OldLines = {l1}
  HealedLines = {}
  Workers = {w1, w2}
  Ops = {o1, o2}
  Recipients = {stock, spend}
  Stock = stock
  None = None
  MaxFaults = 1
SPECIFICATION Spec
INVARIANTS TypeOK StockOnce CostToldOnce CalmRefusals
PROPERTIES AcknowledgedStays ImplementsDelivery
SYMMETRY Interchangeable
CHECK_DEADLOCK FALSE
