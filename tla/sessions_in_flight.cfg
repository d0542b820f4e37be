SPECIFICATION Spec
CONSTANTS
  Login = {l}
  Exchange = {}
  Refresh = {f1, f2}
  Logout = {}
  Change = {}
  Reset = {s1}
  Handoff = {}
  ResetToken = {k}
  Nothing = Nothing
  MaxRequests = 4
  MaxExpired = 0
  MaxCrashes = 0
INVARIANT
  KillsEverySession
