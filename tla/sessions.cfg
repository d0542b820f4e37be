SPECIFICATION Spec
CONSTANTS
  Login = {l}
  Exchange = {g1, g2}
  Refresh = {f1, f2}
  Logout = {o}
  Change = {p}
  Reset = {s1, s2}
  Handoff = {h}
  ResetToken = {k}
  Nothing = Nothing
  MaxRequests = 5
  MaxExpired = 1
  MaxCrashes = 1
SYMMETRY Symmetric
INVARIANTS
  TypeOK
  OneLivePerSession
  OneUsePerCode
  NoneOutlivesPurge
