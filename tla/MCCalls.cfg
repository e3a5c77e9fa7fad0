SPECIFICATION Spec
CONSTANTS
  Unit = 4
  Chunks = {1, 2, 3}
  Similarities <- MCSimilarities
  Ranks = {0, 1, 2}
  TopKs = {1, 2}
  NotAnObject = NotAnObject
  Objects <- MCObjects
  Contexts <- MCContexts
  None = None
  Instruments = {None, "TICK"}
  Histories <- MCHistories
  BacktestAlerts <- MCAlerts
  Holdings <- MCHoldings
  NoRate = NoRate
  Alerts = {1, 2, 3}
  MaxSignificant = 2
  Briefings = {1, 2}
  Inside <- MCInside
  Magnitude <- MCMagnitude
  TitleSignals <- MCTitleSignals
  Articles <- MCArticles
  Tickers = {"ACME", "BETA"}
  Entities = {"opec"}
  Stems = {"one", "two"}
  Keys = {"q"}
  Fragments = {"top"}
  Tracking = {"utm"}
  NoFragment = NoFragment
  Urls <- MCUrls
INVARIANTS
  
  GuardDecides
  ForwardTrade
  RatesAccounted
  AlertNeedsWatchlist
  SameAddressSameForm
CHECK_DEADLOCK FALSE
