CONSTANTS
  Lines = {l1}
  OldLines = {l1}
  HealedLines = {l1}
  Workers = {w1, w2}
  Ops = {o1}
  Recipients = {stock}
  Stock = stock
  None = None
  MaxFaults = 3
SPECIFICATION FairSpec
PROPERTIES EveryReceiptCloses
CHECK_DEADLOCK FALSE
