SPECIFICATION Spec
CONSTANTS
  t1 = t1  t2 = t2  t3 = t3  t4 = t4
  NoOne = NoOne
  Transfer <- MCTransfer
  Account = {1, 2, 3}
  MaxId = 3
  From <- MCFrom
  To <- MCTo
  Amount <- MCAmount
  Opening <- MCOpening
  Others = {}
  MaxCrashes = 0
INVARIANT
  LedgerBacked
