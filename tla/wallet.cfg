SPECIFICATION WalletSpec
CONSTANTS
  t1 = t1  t2 = t2  t3 = t3  w = w  wd = wd  v = v  vd = vd
  NoOne = NoOne  NoKey = NoKey  Unset = Unset
  Transfer <- MCTransfer
  Account = {1, 2, 3}
  MaxId = 3
  From <- MCFrom
  To <- MCTo
  Amount <- MCAmount
  Opening <- MCOpening
  Others <- MCOthers
  MaxCrashes = 1  OtherCrashes = 0
  Key = {}
  Rates = {1}
  Payout = {w}  PayoutCallback = {wd}
  Payer <- MCPayer
  PayoutAmount <- MCPayoutAmount
  PayoutForeign = {}
  PayoutKey <- MCPayoutKey
  PayoutStripe = {}
  PayoutFaults = {}
  Deposit = {v}  DepositCallback = {vd}
  Payee <- MCPayee
  DepositAmount <- MCDepositAmount
  DepositForeign = {}
  DepositKey <- MCDepositKey
  DepositStripe = {}
  DepositFaults = {}
INVARIANTS
  WalletTypeOK
  NoCircle
  LedgerBackedUnlessStale
  NoOverdraft
PROPERTY
  HoldersPost
