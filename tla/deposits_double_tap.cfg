SPECIFICATION Spec
CONSTANTS
  m1 = m1  c1 = c1  alice = alice  k = k
  d1 = d1  d2 = d2
  NoKey = NoKey  NoOne = NoOne  Unset = Unset
  Request <- MCRequest
  Delivery = {d1, d2}
  Account = {alice}
  Key = {k}
  Payee <- MCPayee
  Amount <- MCAmount
  Foreign = {}
  Rates = {2, 3}
  KeyOf <- MCKeyOf
  Stripe = {}
  Opening <- MCOpening
  Faults = {"double_tap"}
  Others = {}
  MaxCrashes = 0
INVARIANT
  ChargedOncePerKey
