SPECIFICATION FairSpec
CONSTANTS
  Workers = {w1, w2}
  Msgs = {t1, t2}
  MaxRetries = 0
  NoMsg = NoMsg
  Mails = {buy, ask, spam}
  Trusted = {buy, ask}
  Trades = {buy}
  Questions = {ask}
INVARIANTS
  TypeOK
  ConfirmedIsRecorded
  RecordedOncePerRun
  SeenIsAccounted
PROPERTIES
  MailsGetSettled
