SPECIFICATION Spec
CONSTANTS
  m1 = m1   c1 = c1  alice = alice  k = k
  d1 = d1  d2 = d2
  NoKey = NoKey  NoOne = NoOne  Unset = Unset
  Request <- MCRequest
  Delivery = {d1, d2}
  Account = {alice}
  Key = {k}
  Payer <- MCPayer
  Amount <- MCAmount
  Foreign = {c1}
  Rates = {2, 3}
  KeyOf <- MCKeyOf
  Stripe = {c1}
  Opening <- MCOpening
  Faults = {"lost_response"}
  Others = {}
  MaxCrashes = 0
INVARIANT
  SentIsDeducted
