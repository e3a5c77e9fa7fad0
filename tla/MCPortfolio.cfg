SPECIFICATION Spec
CONSTANTS
  MailSessions = {mail}
  Requests = {api}
  Tickers = {"TICK"}
  Texts <- MCTexts
  NoPrice = NoPrice
  MaxRows = 3
  MaxClock = 4
INVARIANTS
  TypeOK
  OwnOrder
  AverageWithinPaid
  BuysAverage
