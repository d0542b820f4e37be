SPECIFICATION Spec
CONSTANTS
  Setup = {s1, s2}
  Confirm = {k1, k2}
  Link = {l1, l2, l3}
  Delete = {d1, d2}
  Card = {c}
  Number = {n}
  SetDefault = {k1, k2, l1, l2}
  None = None
  Gone = Gone
  MaxRequests = 4
  MaxCrashes = 1
SYMMETRY Symmetric
INVARIANTS
  TypeOK
  OneDefault
  OneRowPerNumber
  OwnCustomer
  DeletedIsDetached
