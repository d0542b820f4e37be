SPECIFICATION Spec
CONSTANTS
  g1 = g1  g2 = g2  a = a  b = b
  Register = {n}
  Callback = {c1, c2, c3}
  Change = {p1, p2}
  Resend = {s}
  Verify = {v1, v2}
  Address = {a, b}
  Google = {g1, g2}
  AddressOf <- MCAddressOf
  None = None
  MaxRequests = 5
  MaxCrashes = 1
SYMMETRY Symmetric
INVARIANTS
  TypeOK
  VerifiedIsProven
  SignsInSameUser
  LinksAreCommitted
