SPECIFICATION RSpec
CONSTANTS
  t1 = t1  t2 = t2  t3 = t3  t4 = t4  t5 = t5
  a = a  b = b
  x = x  y = y  z = z  w = w
  e1 = e1  e2 = e2  e3 = e3
  Nil = Nil
  TX <- Calls
  Debtor <- Debtors
  Creditor <- Creditors
  Ete <- Instructions
  Amount <- Amounts
  Currency <- Currencies
  Type <- Types
  Grain = 10
  Limit = 100000
  Followed = {t1}
  Breaking = {t1}
  After <- Order
INVARIANTS
  NoTrace
  PendingComesBack
  NoStandstill
  RTypeOK
  SentAsAsked
  ConfirmedIsFound
PROPERTIES
  RegistrationStays
  InsertIsAtomic
  EveryCallEnds
  AnswersAgree
CHECK_DEADLOCK FALSE
